---- MODULE Spec2Model ----
(***************************************************************************)
(* Roll (obsidian-analog-todos): the task/section parser, the filters, the  *)
(* serializer, the page template builder and the rollover of a page.        *)
(*                                                                          *)
(* A text is a sequence of characters (one-character strings); "\n" is the  *)
(* line separator, as in the source.                                        *)
(***************************************************************************)
EXTENDS Integers, Sequences, FiniteSets, TLC

VARIABLES
    content,        \* parseSections: the text being parsed
    lines,          \* parseSections: content.split("\n")
    i,              \* parseSections: the loop index (zero-based)
    currentSection, \* parseSections: <<>> for null, <<section>> otherwise
    sections,       \* parseSections: the sections pushed so far
    pc,             \* the position of the running pipeline
    rtSection,      \* the section handed to sectionToMarkdown, <<>> if none
    rtResult,       \* parseSections(sectionToMarkdown(section).join("\n"))
    fSections,      \* the argument of filterIncompleteSections
    fOnce,          \* filterIncompleteSections(fSections)
    fTwice,         \* filterIncompleteSections(fOnce)
    tOnce,          \* filterIncomplete of the tasks of fSections
    tTwice,         \* filterIncomplete(tOnce)
    rollFolder,     \* settings.rollFolder
    filePath,       \* the path of the file in the active view
    doc,            \* the lines of the editor of the active view
    doc0,           \* the lines of the editor before the first click
    clicks,         \* per line, how often the click handler has rewritten it
    outcome,        \* what the click handler did with the last click
    files,          \* the vault: per TFile (the index), its path and its text
    folders,        \* the vault: the paths of its folders
    today,          \* what getTodayDate() returns
    rollovers,      \* per invocation of rollover, its locals and where it stands
    call,           \* a function called on its own: <<>>, or <<its arguments>>
    returned        \* <<>>, or <<what the call returned>>

parseVars == <<content, lines, i, currentSection, sections, rtSection, rtResult>>
filterVars == <<fSections, fOnce, fTwice, tOnce, tTwice>>
clickVars == <<filePath, doc, doc0, clicks, outcome>>
vaultVars == <<files, folders, today, rollovers>>
callVars == <<call, returned>>
vars == <<content, lines, i, currentSection, sections, pc, rtSection, rtResult,
          fSections, fOnce, fTwice, tOnce, tTwice,
          rollFolder, filePath, doc, doc0, clicks, outcome,
          files, folders, today, rollovers, call, returned>>

\* the parts of the state a specification does not use stay as they are here
NoParse ==
    /\ content = <<>> /\ lines = <<>> /\ i = 0
    /\ currentSection = <<>> /\ sections = <<>>
    /\ rtSection = <<>> /\ rtResult = <<>>

NoFilter ==
    /\ fSections = <<>> /\ fOnce = <<>> /\ fTwice = <<>>
    /\ tOnce = <<>> /\ tTwice = <<>>

NoClicks ==
    /\ filePath = <<>>
    /\ doc = <<>> /\ doc0 = <<>> /\ clicks = <<>>
    /\ outcome = "none"

NoVault ==
    /\ files = <<>> /\ folders = {} /\ today = <<>> /\ rollovers = <<>>

NoCall ==
    /\ call = <<>> /\ returned = <<>>

----------------------------------------------------------------------------
(* Bounds of the model *)

MaxLines == 3
MaxSections == 2
MaxTasks == 3
MaxDocLines == 2
MaxClicks == 4
MaxRollovers == 2

\* the '#' characters a typed line starts with, and the characters after them
MaxHashes == 7
MaxRest == 3

\* the largest counter formatArchivedFileName is called with
MaxCounter == 3

\* host operations that throw for a reason outside the model, over all invocations
MaxFailures == 1

----------------------------------------------------------------------------
(* Characters and the character classes of JavaScript regular expressions *)

NL == "\n"

\* \s
IsWhitespace(c) == c \in {" ", "\t", "\r", "\n"}

\* . (no s flag): any character but a line terminator
IsDot(c) == c \notin {"\n", "\r"}

\* Array.prototype.join
RECURSIVE join(_, _)
join(ls, sep) ==
    IF ls = <<>> THEN <<>>
    ELSE IF Len(ls) = 1 THEN ls[1]
    ELSE ls[1] \o sep \o join(Tail(ls), sep)

\* the index of the first sep in s at or after k, or Len(s) + 1
RECURSIVE IndexFrom(_, _, _)
IndexFrom(s, sep, k) ==
    IF k > Len(s) THEN Len(s) + 1
    ELSE IF s[k] = sep THEN k
    ELSE IndexFrom(s, sep, k + 1)

\* String.prototype.split on a one-character separator: always at least one piece
RECURSIVE split(_, _)
split(s, sep) ==
    LET k == IndexFrom(s, sep, 1)
    IN  IF k > Len(s) THEN <<s>>
        ELSE <<SubSeq(s, 1, k - 1)>> \o split(SubSeq(s, k + 1, Len(s)), sep)

\* the length of the longest prefix of s, from position k on, of whitespace
RECURSIVE SpaceRun(_, _)
SpaceRun(s, k) ==
    IF k <= Len(s) /\ IsWhitespace(s[k]) THEN 1 + SpaceRun(s, k + 1) ELSE 0

AllDot(s, from) == \A k \in from..Len(s) : IsDot(s[k])

----------------------------------------------------------------------------
(* src/utils/tasks.ts *)

TaskStates == {" ", "/", "x"}

\* HEADER_PATTERN with \S in the place of the first character of .+
HEADER_PATTERN_NonSpace(line) ==
    \E h \in 1..6 : \E w \in 1..Len(line) :
        /\ h + w < Len(line)
        /\ \A k \in 1..h : line[k] = "#"
        /\ \A k \in (h + 1)..(h + w) : IsWhitespace(line[k])
        /\ ~IsWhitespace(line[h + w + 1])
        /\ AllDot(line, h + w + 1)

\* /^#{1,6}\s+.+$/ .test(line)
HEADER_PATTERN(line) ==
    \E h \in 1..6 : \E w \in 1..Len(line) :
        /\ h + w < Len(line)
        /\ \A k \in 1..h : line[k] = "#"
        /\ \A k \in (h + 1)..(h + w) : IsWhitespace(line[k])
        /\ AllDot(line, h + w + 1)

\* TASK_PATTERN with one optional space after "]" instead of \s*
TASK_PATTERN_OneSpace(line) ==
    LET n == SpaceRun(line, 1)
        m == n + 5 + (IF Len(line) >= n + 6 /\ line[n + 6] = " " THEN 1 ELSE 0)
    IN  IF /\ Len(line) >= n + 5
           /\ line[n + 1] = "-"
           /\ line[n + 2] = " "
           /\ line[n + 3] = "["
           /\ line[n + 4] # "]"
           /\ line[n + 5] = "]"
           /\ AllDot(line, m + 1)
        THEN <<[indent |-> SubSeq(line, 1, n),
                state  |-> line[n + 4],
                text   |-> SubSeq(line, m + 1, Len(line))]>>
        ELSE <<>>

\* TASK_PATTERN with [ \/x] in the place of [^\]]
TASK_PATTERN_TriState(line) ==
    LET n == SpaceRun(line, 1)
        m == n + 5 + SpaceRun(line, n + 6)
    IN  IF /\ Len(line) >= n + 5
           /\ line[n + 1] = "-"
           /\ line[n + 2] = " "
           /\ line[n + 3] = "["
           /\ line[n + 4] \in {" ", "/", "x"}
           /\ line[n + 5] = "]"
           /\ AllDot(line, m + 1)
        THEN <<[indent |-> SubSeq(line, 1, n),
                state  |-> line[n + 4],
                text   |-> SubSeq(line, m + 1, Len(line))]>>
        ELSE <<>>

\* line.match(/^(\s*)- \[([^\]])\]\s*(.*)$/): <<>> for null, otherwise
\* <<[indent, state, text]>>. Both \s* are greedy and nothing after them can
\* start with whitespace they gave up, so each takes its whole run.
TASK_PATTERN(line) ==
    LET n == SpaceRun(line, 1)
        m == n + 5 + SpaceRun(line, n + 6)
    IN  IF /\ Len(line) >= n + 5
           /\ line[n + 1] = "-"
           /\ line[n + 2] = " "
           /\ line[n + 3] = "["
           /\ line[n + 4] # "]"
           /\ line[n + 5] = "]"
           /\ AllDot(line, m + 1)
        THEN <<[indent |-> SubSeq(line, 1, n),
                state  |-> line[n + 4],
                text   |-> SubSeq(line, m + 1, Len(line))]>>
        ELSE <<>>

\* the parser's state between two iterations of the loop of parseSections
ParserState(secs, cur) == [sections |-> secs, currentSection |-> cur]

HasTasks(cur) == cur # <<>> /\ Len(cur[1].tasks) > 0

\* HeaderStep that never groups: every header line starts a section
HeaderStep_NeverGroups(st, line) ==
    LET cur  == st.currentSection
        secs == IF HasTasks(cur) THEN Append(st.sections, cur[1]) ELSE st.sections
    IN  ParserState(secs, <<[headers |-> <<line>>, tasks |-> <<>>]>>)

\* the loop body on a header line
HeaderStep(st, line) ==
    LET cur  == st.currentSection
        secs == IF HasTasks(cur) THEN Append(st.sections, cur[1]) ELSE st.sections
    IN  IF cur # <<>> /\ Len(cur[1].tasks) = 0
        THEN ParserState(secs,
                 <<[cur[1] EXCEPT !.headers = Append(cur[1].headers, line)]>>)
        ELSE ParserState(secs, <<[headers |-> <<line>>, tasks |-> <<>>]>>)

\* the loop body on a task line that numbers the lines from one
TaskStep_OneBased(st, line, idx) ==
    LET taskMatch == TASK_PATTERN(line)[1]
        cur == IF st.currentSection = <<>>
               THEN [headers |-> <<>>, tasks |-> <<>>]
               ELSE st.currentSection[1]
        task == [line   |-> idx + 1,
                 indent |-> taskMatch.indent,
                 state  |-> taskMatch.state,
                 text   |-> taskMatch.text,
                 raw    |-> line]
    IN  ParserState(st.sections, <<[cur EXCEPT !.tasks = Append(cur.tasks, task)]>>)

\* the loop body on a task line, at zero-based line number idx
TaskStep(st, line, idx) ==
    LET taskMatch == TASK_PATTERN(line)[1]
        cur == IF st.currentSection = <<>>
               THEN [headers |-> <<>>, tasks |-> <<>>]
               ELSE st.currentSection[1]
        task == [line   |-> idx,
                 indent |-> taskMatch.indent,
                 state  |-> taskMatch.state,
                 text   |-> taskMatch.text,
                 raw    |-> line]
    IN  ParserState(st.sections, <<[cur EXCEPT !.tasks = Append(cur.tasks, task)]>>)

\* LoopBody in which a line of text closes the section being built
LoopBody_TextCloses(st, line, idx) ==
    IF HEADER_PATTERN(line) THEN HeaderStep(st, line)
    ELSE IF TASK_PATTERN(line) # <<>> THEN TaskStep(st, line, idx)
    ELSE IF line # <<>>
         THEN ParserState(IF HasTasks(st.currentSection)
                          THEN Append(st.sections, st.currentSection[1])
                          ELSE st.sections, <<>>)
    ELSE st

\* one iteration of the loop of parseSections
LoopBody(st, line, idx) ==
    IF HEADER_PATTERN(line) THEN HeaderStep(st, line)
    ELSE IF TASK_PATTERN(line) # <<>> THEN TaskStep(st, line, idx)
    ELSE st

\* LastSection without the test of tasks.length
LastSection_KeepsEmpty(st) ==
    IF st.currentSection # <<>>
    THEN Append(st.sections, st.currentSection[1])
    ELSE st.sections

\* after the loop: "Don't forget the last section"
LastSection(st) ==
    IF HasTasks(st.currentSection)
    THEN Append(st.sections, st.currentSection[1])
    ELSE st.sections

RECURSIVE ParseLoop(_, _, _)
ParseLoop(ls, idx, st) ==
    IF idx >= Len(ls) THEN st
    ELSE ParseLoop(ls, idx + 1, LoopBody(st, ls[idx + 1], idx))

parseSections(text) ==
    LastSection(ParseLoop(split(text, NL), 0, ParserState(<<>>, <<>>)))

\* sections.flatMap((s) => s.tasks)
RECURSIVE FlatTasks(_)
FlatTasks(secs) ==
    IF secs = <<>> THEN <<>> ELSE Head(secs).tasks \o FlatTasks(Tail(secs))

parseTasks(text) == FlatTasks(parseSections(text))

\* filterIncompleteSections that rolls only the tasks in state " "
filterIncompleteSections_TodoOnly(secs) ==
    SelectSeq([k \in 1..Len(secs) |->
                  [headers |-> secs[k].headers,
                   tasks   |-> SelectSeq(secs[k].tasks, LAMBDA t : t.state = " ")]],
              LAMBDA section : Len(section.tasks) > 0)

\* filterIncompleteSections without the final filter on tasks.length
filterIncompleteSections_KeepsEmpty(secs) ==
    [k \in 1..Len(secs) |->
        [headers |-> secs[k].headers,
         tasks   |-> SelectSeq(secs[k].tasks,
                               LAMBDA t : t.state = " " \/ t.state = "/")]]

\* sections.map(...).filter(...); SelectSeq is Array.prototype.filter
filterIncompleteSections(secs) ==
    SelectSeq([k \in 1..Len(secs) |->
                  [headers |-> secs[k].headers,
                   tasks   |-> SelectSeq(secs[k].tasks,
                                         LAMBDA t : t.state = " " \/ t.state = "/")]],
              LAMBDA section : Len(section.tasks) > 0)

\* filterIncomplete that removes in place while iterating: the task after a
\* removed one is not looked at
RECURSIVE filterIncomplete_SpliceSkips(_)
filterIncomplete_SpliceSkips(tasks) ==
    IF tasks = <<>> THEN <<>>
    ELSE IF Head(tasks).state = " " \/ Head(tasks).state = "/"
         THEN <<Head(tasks)>> \o filterIncomplete_SpliceSkips(Tail(tasks))
         ELSE IF Tail(tasks) = <<>> THEN <<>>
              ELSE <<Head(Tail(tasks))>> \o filterIncomplete_SpliceSkips(Tail(Tail(tasks)))

filterIncomplete(tasks) ==
    SelectSeq(tasks, LAMBDA t : t.state = " " \/ t.state = "/")

\* taskToMarkdown without the indent
taskToMarkdown_NoIndent(task) ==
    <<"-", " ", "[", task.state, "]", " ">> \o task.text

\* `${task.indent}- [${task.state}] ${task.text}`
taskToMarkdown(task) ==
    task.indent \o <<"-", " ", "[", task.state, "]", " ">> \o task.text

\* sectionToMarkdown with an empty line pushed between the headers and the tasks
sectionToMarkdown_BlankLine(section) ==
    section.headers \o << <<>> >>
        \o [k \in 1..Len(section.tasks) |-> taskToMarkdown(section.tasks[k])]

\* lines.push(...section.headers), then lines.push(taskToMarkdown(task)) per task
sectionToMarkdown(section) ==
    section.headers \o [k \in 1..Len(section.tasks) |-> taskToMarkdown(section.tasks[k])]

\* what a switch without a matching case returns
Undefined == "undefined"

\* getNextTaskState that goes from "/" back to " "
getNextTaskState_TwoStates(currentState) ==
    CASE currentState = " " -> "/"
      [] currentState = "/" -> " "
      [] currentState = "x" -> " "
      [] OTHER -> Undefined

getNextTaskState(currentState) ==
    CASE currentState = " " -> "/"
      [] currentState = "/" -> "x"
      [] currentState = "x" -> " "
      [] OTHER -> Undefined

\* TASK_LINE_PATTERN with the first group closed before the "["
TASK_LINE_PATTERN_ShortPrefix(line) ==
    LET n == SpaceRun(line, 1)
    IN  IF /\ Len(line) >= n + 5
           /\ line[n + 1] = "-"
           /\ line[n + 2] = " "
           /\ line[n + 3] = "["
           /\ line[n + 4] # "]"
           /\ line[n + 5] = "]"
           /\ AllDot(line, n + 6)
        THEN <<[prefix |-> SubSeq(line, 1, n + 2),
                state  |-> line[n + 4],
                suffix |-> SubSeq(line, n + 5, Len(line))]>>
        ELSE <<>>

\* line.match(/^(\s*- \[)([^\]])(\].*)$/): <<>> for null
TASK_LINE_PATTERN(line) ==
    LET n == SpaceRun(line, 1)
    IN  IF /\ Len(line) >= n + 5
           /\ line[n + 1] = "-"
           /\ line[n + 2] = " "
           /\ line[n + 3] = "["
           /\ line[n + 4] # "]"
           /\ line[n + 5] = "]"
           /\ AllDot(line, n + 6)
        THEN <<[prefix |-> SubSeq(line, 1, n + 3),
                state  |-> line[n + 4],
                suffix |-> SubSeq(line, n + 5, Len(line))]>>
        ELSE <<>>

parseTaskLine(line) == TASK_LINE_PATTERN(line)

----------------------------------------------------------------------------
(* src/utils/files.ts *)

\* String.prototype.startsWith
startsWith(s, prefix) ==
    Len(s) >= Len(prefix) /\ SubSeq(s, 1, Len(prefix)) = prefix

\* String.prototype.includes, for a one-character argument
includes(s, c) == \E k \in 1..Len(s) : s[k] = c

\* isInPluginFolder without the "/" after folderPath
isInPluginFolder_NoSlash(path, folderPath) ==
    IF folderPath = <<>> THEN ~includes(path, "/")
    ELSE startsWith(path, folderPath)

isInPluginFolder(path, folderPath) ==
    IF folderPath = <<>> THEN ~includes(path, "/")
    ELSE startsWith(path, folderPath \o <<"/">>)

\* a value in a template literal: `${undefined}` is the text "undefined"
TemplateText(v) ==
    IF v = Undefined THEN <<"u", "n", "d", "e", "f", "i", "n", "e", "d">> ELSE <<v>>

----------------------------------------------------------------------------
(* src/pages/types.ts, src/settings.ts *)

PageTypes == {"now", "next"}

PAGE_CONFIG(pageType) ==
    IF pageType = "now"
    THEN [filename |-> <<"N", "o", "w", ".", "m", "d">>, displayName |-> <<"N", "o", "w">>]
    ELSE [filename |-> <<"N", "e", "x", "t", ".", "m", "d">>, displayName |-> <<"N", "e", "x", "t">>]

\* DEFAULT_SETTINGS.archiveFolder
archiveFolder == <<"A", "r", "c", "h", "i", "v", "e">>

----------------------------------------------------------------------------
(* src/pages/templates.ts *)

DEFAULT_NOW_TEMPLATE_BODY ==
    <<NL, "-", " ", "[", " ", "]", " ", "n", "e", "w", " ", "t", "a", "s", "k", NL, "-",
      " ", "[", "/", "]", " ", "i", "n", "-", "p", "r", "o", "g", "r", "e", "s", "s", " ",
      "t", "a", "s", "k", NL, NL, "#", "#", "#", " ", "P", "r", "o", "j", "e", "c", "t",
      " ", "t", "i", "t", "l", "e", NL, "-", " ", "[", " ", "]", " ", "p", "r", "o", "j",
      "e", "c", "t", " ", "t", "a", "s", "k", NL, "-", " ", "[", "x", "]", " ", "c", "o",
      "m", "p", "l", "e", "t", "e", "d", " ", "t", "a", "s", "k", NL>>

DEFAULT_NEXT_TEMPLATE_BODY ==
    <<NL, "-", " ", "[", " ", "]", " ", "t", "a", "s", "k", " ", "c", "o", "m", "i", "n",
      "g", " ", "u", "p", " ", "s", "o", "o", "n", NL, "-", " ", "[", " ", "]", " ", "a",
      "n", "o", "t", "h", "e", "r", " ", "t", "a", "s", "k", " ", "c", "o", "m", "i", "n",
      "g", " ", "u", "p", " ", "l", "a", "t", "e", "r", NL>>

DEFAULT_TEMPLATE_BODIES(pageType) ==
    IF pageType = "now" THEN DEFAULT_NOW_TEMPLATE_BODY ELSE DEFAULT_NEXT_TEMPLATE_BODY

\* formatFlatTasks without the reset of the indentation
formatFlatTasks_KeepsIndent(secs) ==
    LET tasks == FlatTasks(secs)
        ls    == [k \in 1..Len(tasks) |-> taskToMarkdown(tasks[k])]
    IN  <<NL>> \o join(ls, <<NL>>) \o <<NL>>

formatFlatTasks(secs) ==
    LET tasks     == FlatTasks(secs)
        flatTasks == [k \in 1..Len(tasks) |-> [tasks[k] EXCEPT !.indent = <<>>]]
        ls        == [k \in 1..Len(flatTasks) |-> taskToMarkdown(flatTasks[k])]
    IN  <<NL>> \o join(ls, <<NL>>) \o <<NL>>

\* the for loop of buildPageTemplate without the push of the blank line
RECURSIVE SectionLines_NoBlank(_, _)
SectionLines_NoBlank(secs, ls) ==
    IF secs = <<>> THEN ls
    ELSE SectionLines_NoBlank(Tail(secs), ls \o sectionToMarkdown(Head(secs)))

\* the for loop of buildPageTemplate: a blank line before every section but the first
RECURSIVE SectionLines(_, _)
SectionLines(secs, ls) ==
    IF secs = <<>> THEN ls
    ELSE SectionLines(Tail(secs),
                      (IF Len(ls) > 0 THEN Append(ls, <<>>) ELSE ls)
                          \o sectionToMarkdown(Head(secs)))

\* buildPageTemplate without the newline between frontmatter and sections
buildPageTemplate_NoBlankLine(pageType, startDate, rolledSections) ==
    LET frontmatter == <<"-", "-", "-", NL, "s", "t", "a", "r", "t", "e", "d", ":", " ">> \o startDate \o <<NL, "-", "-", "-", NL>>
    IN  IF Len(rolledSections) = 0
        THEN frontmatter \o DEFAULT_TEMPLATE_BODIES(pageType)
        ELSE IF pageType = "next"
        THEN frontmatter \o formatFlatTasks(rolledSections)
        ELSE frontmatter \o join(SectionLines(rolledSections, <<>>), <<NL>>) \o <<NL>>

\* buildPageTemplate without the newline after the last section
buildPageTemplate_BodyTrimmed(pageType, startDate, rolledSections) ==
    LET frontmatter == <<"-", "-", "-", NL, "s", "t", "a", "r", "t", "e", "d", ":", " ">> \o startDate \o <<NL, "-", "-", "-", NL>>
    IN  IF Len(rolledSections) = 0
        THEN frontmatter \o DEFAULT_TEMPLATE_BODIES(pageType)
        ELSE IF pageType = "next"
        THEN frontmatter \o formatFlatTasks(rolledSections)
        ELSE frontmatter \o <<NL>> \o join(SectionLines(rolledSections, <<>>), <<NL>>)

\* buildPageTemplate that takes the default body for a single section too
buildPageTemplate_DefaultForOne(pageType, startDate, rolledSections) ==
    LET frontmatter == <<"-", "-", "-", NL, "s", "t", "a", "r", "t", "e", "d", ":", " ">> \o startDate \o <<NL, "-", "-", "-", NL>>
    IN  IF Len(rolledSections) <= 1
        THEN frontmatter \o DEFAULT_TEMPLATE_BODIES(pageType)
        ELSE IF pageType = "next"
        THEN frontmatter \o formatFlatTasks(rolledSections)
        ELSE frontmatter \o <<NL>> \o join(SectionLines(rolledSections, <<>>), <<NL>>) \o <<NL>>

\* the frontmatter of buildPageTemplate
Frontmatter(startDate) ==
    <<"-", "-", "-", NL, "s", "t", "a", "r", "t", "e", "d", ":", " ">> \o startDate \o <<NL, "-", "-", "-", NL>>

buildPageTemplate(pageType, startDate, rolledSections) ==
    LET frontmatter == <<"-", "-", "-", NL, "s", "t", "a", "r", "t", "e", "d", ":", " ">> \o startDate \o <<NL, "-", "-", "-", NL>>
    IN  IF Len(rolledSections) = 0
        THEN frontmatter \o DEFAULT_TEMPLATE_BODIES(pageType)
        ELSE IF pageType = "next"
        THEN frontmatter \o formatFlatTasks(rolledSections)
        ELSE frontmatter \o <<NL>> \o join(SectionLines(rolledSections, <<>>), <<NL>>) \o <<NL>>

----------------------------------------------------------------------------
(* src/utils/filenames.ts *)

\* formatArchivedFileName with counter >= 1 in the place of counter > 1
formatArchivedFileName_FromOne(pageType, started, ended, counter) ==
    LET displayName == PAGE_CONFIG(pageType).displayName
        base == displayName \o <<" ">> \o started \o <<"~">> \o ended
    IN  IF counter # 0 /\ counter >= 1
        THEN base \o <<" ", "(">> \o <<ToString(counter)>> \o <<")", ".", "m", "d">>
        ELSE base \o <<".", "m", "d">>

\* counter = 0 stands for an absent counter
formatArchivedFileName(pageType, started, ended, counter) ==
    LET displayName == PAGE_CONFIG(pageType).displayName
        base == displayName \o <<" ">> \o started \o <<"~">> \o ended
    IN  IF counter # 0 /\ counter > 1
        THEN base \o <<" ", "(">> \o <<ToString(counter)>> \o <<")", ".", "m", "d">>
        ELSE base \o <<".", "m", "d">>

----------------------------------------------------------------------------
(* The vault and the metadata cache of the host, as src/pages/page-manager.ts
   uses them *)

\* vault.getAbstractFileByPath, for files: 0 for null
FileAt(fs, path) ==
    IF \E f \in 1..Len(fs) : fs[f].path = path
    THEN CHOOSE f \in 1..Len(fs) : fs[f].path = path
    ELSE 0

\* the frontmatter block of a text: the lines between a first line --- and the
\* next line ---; <<>> when the text has none
FrontMatterLines(text) ==
    LET ls == split(text, NL)
        closing == { k \in 2..Len(ls) : ls[k] = <<"-", "-", "-">> }
    IN  IF ls[1] = <<"-", "-", "-">> /\ closing # {}
        THEN SubSeq(ls, 2, (CHOOSE k \in closing : \A j \in closing : k <= j) - 1)
        ELSE <<>>

\* frontmatter?.[key]: <<>> for undefined, <<value>> otherwise
FrontMatterField(text, key) ==
    LET ls   == FrontMatterLines(text)
        hits == { k \in 1..Len(ls) : startsWith(ls[k], key \o <<":", " ">>) }
    IN  IF hits = {} THEN <<>>
        ELSE LET k == CHOOSE k \in hits : \A j \in hits : k <= j
             IN  <<SubSeq(ls[k], Len(key) + 3, Len(ls[k]))>>

Started == <<"s", "t", "a", "r", "t", "e", "d">>
Ended == <<"e", "n", "d", "e", "d">>

\* a value as a condition: undefined and "" are falsy
Truthy(field) == field # <<>> /\ field[1] # <<>>

\* markAsEnded without the test of frontmatter.started
markAsEndedText_NoStartedTest(text, endDate) ==
    IF ~Truthy(FrontMatterField(text, Ended))
    THEN LET ls == split(text, NL)
             n  == Len(FrontMatterLines(text))
         IN  join(SubSeq(ls, 1, n + 1)
                    \o <<Ended \o <<":", " ">> \o endDate>>
                    \o SubSeq(ls, n + 2, Len(ls)), <<NL>>)
    ELSE text

\* the callback of processFrontMatter in markAsEnded, and the host writing
\* the changed frontmatter back: the new text
markAsEndedText(text, endDate) ==
    IF ~Truthy(FrontMatterField(text, Ended)) /\ Truthy(FrontMatterField(text, Started))
    THEN LET ls == split(text, NL)
             n  == Len(FrontMatterLines(text))
         IN  join(SubSeq(ls, 1, n + 1)
                    \o <<Ended \o <<":", " ">> \o endDate>>
                    \o SubSeq(ls, n + 2, Len(ls)), <<NL>>)
    ELSE text

\* PageManager.getFilePath
getFilePath(pageType) ==
    LET filename == PAGE_CONFIG(pageType).filename
    IN  IF rollFolder # <<>> THEN rollFolder \o <<"/">> \o filename ELSE filename

\* String.prototype.endsWith
endsWith(s, suffix) ==
    Len(s) >= Len(suffix) /\ SubSeq(s, Len(s) - Len(suffix) + 1, Len(s)) = suffix

\* detectPageType: <<>> for null; Object.entries(PAGE_CONFIG) has "now" before
\* "next"
detectPageType(path) ==
    IF endsWith(path, PAGE_CONFIG("now").filename) THEN <<"now">>
    ELSE IF endsWith(path, PAGE_CONFIG("next").filename) THEN <<"next">>
    ELSE <<>>

\* the tempPath of rollover
TempPath(pageType) ==
    LET displayName == PAGE_CONFIG(pageType).displayName
    IN  IF rollFolder # <<>>
        THEN rollFolder \o <<"/">> \o displayName \o <<".", "t", "m", "p", ".", "m", "d">>
        ELSE displayName \o <<".", "t", "m", "p", ".", "m", "d">>

\* the archivePath of archive
ArchivePath ==
    IF rollFolder # <<>> THEN rollFolder \o <<"/">> \o archiveFolder ELSE archiveFolder

\* vault.getAbstractFileByPath(path) as a condition
getAbstractFileByPath(path) == FileAt(files, path) # 0 \/ path \in folders

\* archive without the while loop: the first name is taken as it is
ArchiveLoop_NoSearch(pageType, startedDate, endedDate, counter, archivedFileName) ==
    archivedFileName

\* the while loop of archive, entered with counter and archivedFileName
RECURSIVE ArchiveLoop(_, _, _, _, _)
ArchiveLoop(pageType, startedDate, endedDate, counter, archivedFileName) ==
    IF getAbstractFileByPath(ArchivePath \o <<"/">> \o archivedFileName)
    THEN ArchiveLoop(pageType, startedDate, endedDate, counter + 1,
                     formatArchivedFileName(pageType, startedDate, endedDate, counter + 1))
    ELSE archivedFileName

\* the newPath of archive
ArchiveTarget(pageType, startedDate, endedDate) ==
    ArchivePath \o <<"/">>
        \o ArchiveLoop(pageType, startedDate, endedDate, 1,
                       formatArchivedFileName(pageType, startedDate, endedDate, 0))

----------------------------------------------------------------------------
(* The texts given to the parser: up to MaxLines lines, each one of these *)

InputLines ==
    { <<"#", " ", "A">>,                          \* # A
      <<"#", "#", " ", "B">>,                     \* ## B
      <<"-", " ", "[", " ", "]", " ", "a">>,      \* - [ ] a
      <<"\t", "-", " ", "[", "/", "]", "\t", "b">>,  \* <tab>- [/]<tab>b
      <<"-", " ", "[", "x", "]", " ", "c">>,      \* - [x] c
      <<"-", " ", "[", " ", "]", " ", " ", "d">>, \* - [ ]  d (two spaces)
      <<"-", " ", "[", "?", "]", "e">>,           \* - [?]e
      <<" ", "-", " ", "[", "X", "]", " ", "f">>, \* <space>- [X] f
      <<>>,                                       \* blank line
      <<"n", "o">> }                              \* text

InputTexts ==
    { join(ls, <<NL>>) : ls \in UNION { [1..n -> InputLines] : n \in 1..MaxLines } }

----------------------------------------------------------------------------
(* SpecParse: parseSections run line by line on every input text, then one *)
(* of its sections serialized and parsed again                             *)

InitParse ==
    /\ content \in InputTexts
    /\ lines = split(content, NL)
    /\ i = 0
    /\ currentSection = <<>>
    /\ sections = <<>>
    /\ pc = "loop"
    /\ rtSection = <<>>
    /\ rtResult = <<>>
    /\ NoFilter
    /\ NoClicks /\ rollFolder = <<>>
    /\ NoVault
    /\ NoCall

Advance(st) ==
    /\ sections' = st.sections
    /\ currentSection' = st.currentSection
    /\ i' = i + 1
    /\ UNCHANGED <<content, lines, pc, rtSection, rtResult>>
    /\ UNCHANGED filterVars
    /\ UNCHANGED <<clickVars, rollFolder, vaultVars, callVars>>

HeaderLine ==
    /\ pc = "loop" /\ i < Len(lines)
    /\ HEADER_PATTERN(lines[i + 1])
    /\ Advance(LoopBody(ParserState(sections, currentSection), lines[i + 1], i))

TaskLine ==
    /\ pc = "loop" /\ i < Len(lines)
    /\ ~HEADER_PATTERN(lines[i + 1])
    /\ TASK_PATTERN(lines[i + 1]) # <<>>
    /\ Advance(LoopBody(ParserState(sections, currentSection), lines[i + 1], i))

OtherLine ==
    /\ pc = "loop" /\ i < Len(lines)
    /\ ~HEADER_PATTERN(lines[i + 1])
    /\ TASK_PATTERN(lines[i + 1]) = <<>>
    /\ Advance(LoopBody(ParserState(sections, currentSection), lines[i + 1], i))

EndOfInput ==
    /\ pc = "loop" /\ i = Len(lines)
    /\ sections' = LastSection(ParserState(sections, currentSection))
    /\ pc' = "parsed"
    /\ UNCHANGED <<content, lines, i, currentSection, rtSection, rtResult>>
    /\ UNCHANGED filterVars
    /\ UNCHANGED <<clickVars, rollFolder, vaultVars, callVars>>

\* sectionToMarkdown(section).join("\n") parsed again
RoundTrip ==
    /\ pc = "parsed"
    /\ \E k \in 1..Len(sections) :
        /\ rtSection' = <<sections[k]>>
        /\ rtResult' = parseSections(join(sectionToMarkdown(sections[k]), <<NL>>))
    /\ pc' = "reparsed"
    /\ UNCHANGED <<content, lines, i, currentSection, sections>>
    /\ UNCHANGED filterVars
    /\ UNCHANGED <<clickVars, rollFolder, vaultVars, callVars>>

NextParse == HeaderLine \/ TaskLine \/ OtherLine \/ EndOfInput \/ RoundTrip

SpecParse == InitParse /\ [][NextParse]_vars

----------------------------------------------------------------------------
(* SpecHeader: a line is typed, an optional space, then '#' characters, then  *)
(* other characters, and parseSections is given the line with a task under it *)

\* the characters of a typed line: '#', a space, a whitespace character that
\* is also a line terminator, and a character that is neither
LineChars == {"#", " ", "\r", "a"}

TaskUnder == <<"-", " ", "[", " ", "]", " ", "t">>

HashRun(line, k) ==
    Cardinality({ n \in k..Len(line) : \A j \in k..n : line[j] = "#" })

\* while the line is typed, lines holds its three parts
Typed == lines[1] \o lines[2] \o lines[3]

InitHeader ==
    /\ content = <<>>
    /\ \E indent \in { <<>>, <<" ">> } : lines = <<indent, <<>>, <<>>>>
    /\ i = 0
    /\ currentSection = <<>>
    /\ sections = <<>>
    /\ pc = "typing"
    /\ rtSection = <<>>
    /\ rtResult = <<>>
    /\ NoFilter
    /\ NoClicks /\ rollFolder = <<>>
    /\ NoVault
    /\ NoCall

HeaderFrame ==
    /\ UNCHANGED <<i, currentSection, rtSection, rtResult>>
    /\ UNCHANGED filterVars
    /\ UNCHANGED <<clickVars, rollFolder, vaultVars, callVars>>

TypeHash ==
    /\ pc = "typing"
    /\ lines[3] = <<>>
    /\ Len(lines[2]) < MaxHashes
    /\ lines' = [lines EXCEPT ![2] = Append(@, "#")]
    /\ UNCHANGED <<content, sections, pc>>
    /\ HeaderFrame

TypeRest ==
    /\ pc = "typing"
    /\ Len(lines[3]) < MaxRest
    /\ \E c \in LineChars : lines' = [lines EXCEPT ![3] = Append(@, c)]
    /\ UNCHANGED <<content, sections, pc>>
    /\ HeaderFrame

\* parseSections(content) on the typed line and a task line under it
ParseTyped ==
    /\ pc = "typing"
    /\ content' = Typed \o <<NL>> \o TaskUnder
    /\ lines' = split(content', NL)
    /\ sections' = parseSections(content')
    /\ pc' = "parsed"
    /\ HeaderFrame

NextHeader ==
    \/ TypeHash
    \/ TypeRest
    \/ ParseTyped

SpecHeader == InitHeader /\ [][NextHeader]_vars

----------------------------------------------------------------------------
(* SpecFilter: filterIncompleteSections and filterIncomplete, each applied  *)
(* once and then to its own result, on every list of up to MaxSections      *)
(* sections with up to MaxTasks tasks in all                                *)

\* the states a Task can carry: the three of TaskState and one that
\* TASK_PATTERN also lets through
FilterStates == TaskStates \cup {"?"}

FilterHeaders == { <<>>, <<<<"#", " ", "A">>, <<"#", "#", " ", "B">>>> }

TaskCount(secs) == Len(FlatTasks(secs))

\* a section with the given headers and one task per state, numbered from `from`
MakeSection(headers, states, from) ==
    [headers |-> headers,
     tasks   |-> [k \in 1..Len(states) |->
                    [line   |-> from + k - 1,
                     state  |-> states[k],
                     text   |-> <<"t">>,
                     indent |-> <<>>,
                     raw    |-> <<>>]]]

InitFilter ==
    /\ fSections = <<>> /\ fOnce = <<>> /\ fTwice = <<>>
    /\ tOnce = <<>> /\ tTwice = <<>>
    /\ pc = "input"
    /\ NoParse
    /\ NoClicks /\ rollFolder = <<>>
    /\ NoVault
    /\ NoCall

\* the caller builds the argument
AddSection ==
    /\ pc = "input"
    /\ Len(fSections) < MaxSections
    /\ \E h \in FilterHeaders :
       \E n \in 0..(MaxTasks - TaskCount(fSections)) :
       \E states \in [1..n -> FilterStates] :
          fSections' = Append(fSections, MakeSection(h, states, TaskCount(fSections)))
    /\ UNCHANGED <<fOnce, fTwice, tOnce, tTwice, pc>>
    /\ UNCHANGED parseVars
    /\ UNCHANGED <<clickVars, rollFolder, vaultVars, callVars>>

FilterSections ==
    /\ pc = "input"
    /\ fOnce' = filterIncompleteSections(fSections)
    /\ pc' = "sections filtered"
    /\ UNCHANGED <<fSections, fTwice, tOnce, tTwice>>
    /\ UNCHANGED parseVars
    /\ UNCHANGED <<clickVars, rollFolder, vaultVars, callVars>>

FilterSectionsAgain ==
    /\ pc = "sections filtered"
    /\ fTwice' = filterIncompleteSections(fOnce)
    /\ pc' = "sections filtered twice"
    /\ UNCHANGED <<fSections, fOnce, tOnce, tTwice>>
    /\ UNCHANGED parseVars
    /\ UNCHANGED <<clickVars, rollFolder, vaultVars, callVars>>

FilterTasks ==
    /\ pc = "sections filtered twice"
    /\ tOnce' = filterIncomplete(FlatTasks(fSections))
    /\ pc' = "tasks filtered"
    /\ UNCHANGED <<fSections, fOnce, fTwice, tTwice>>
    /\ UNCHANGED parseVars
    /\ UNCHANGED <<clickVars, rollFolder, vaultVars, callVars>>

FilterTasksAgain ==
    /\ pc = "tasks filtered"
    /\ tTwice' = filterIncomplete(tOnce)
    /\ pc' = "tasks filtered twice"
    /\ UNCHANGED <<fSections, fOnce, fTwice, tOnce>>
    /\ UNCHANGED parseVars
    /\ UNCHANGED <<clickVars, rollFolder, vaultVars, callVars>>

NextFilter ==
    AddSection \/ FilterSections \/ FilterSectionsAgain \/ FilterTasks \/ FilterTasksAgain

SpecFilter == InitFilter /\ [][NextFilter]_vars

----------------------------------------------------------------------------
(* SpecClick: the tri-state click handler on the editor of the active view *)

RollFolders == { <<"R", "o", "l", "l">>, <<>> }

FilePaths ==
    { <<"R", "o", "l", "l", "/", "N", "o", "w", ".", "m", "d">>,            \* Roll/Now.md
      <<"N", "o", "w", ".", "m", "d">>,                                    \* Now.md
      <<"R", "o", "l", "l", "/", "A", "/", "N", ".", "m", "d">>,            \* Roll/A/N.md
      <<"R", "o", "l", "l", "s", "/", "N", "o", "w", ".", "m", "d">> }      \* Rolls/Now.md

DocLines ==
    { <<"-", " ", "[", " ", "]", " ", "a">>,            \* - [ ] a
      <<" ", "-", " ", "[", "/", "]", " ", "b">>,       \* (indented) - [/] b
      <<"-", " ", "[", "x", "]", " ", "[", "c", "]">>,  \* - [x] [c]
      <<"-", " ", "[", "?", "]", " ", "e">>,            \* - [?] e
      <<"-", " ", "r">>,                                \* - r
      <<"#", " ", "A">> }                               \* # A

InitClick ==
    /\ rollFolder \in RollFolders
    /\ filePath \in FilePaths
    /\ doc \in UNION { [1..n -> DocLines] : n \in 1..MaxDocLines }
    /\ doc0 = doc
    /\ clicks = [k \in 1..Len(doc) |-> 0]
    /\ outcome = "none"
    /\ pc = "editing"
    /\ NoParse
    /\ NoFilter
    /\ NoVault
    /\ NoCall

ClickFrame ==
    /\ UNCHANGED <<rollFolder, filePath, doc0, pc>>
    /\ UNCHANGED <<parseVars, filterVars, vaultVars, callVars>>

\* the handler returns before preventDefault: the target is no task checkbox,
\* or the file is not in the plugin folder
ClickPassedOn ==
    /\ pc = "editing"
    /\ \E isTaskCheckbox \in BOOLEAN :
          ~isTaskCheckbox \/ ~isInPluginFolder(filePath, rollFolder)
    /\ outcome' = "passed on"
    /\ UNCHANGED <<doc, clicks>>
    /\ ClickFrame

\* the handler takes the click; the line is no task line
ClickNotTask ==
    /\ pc = "editing"
    /\ isInPluginFolder(filePath, rollFolder)
    /\ \E lineNumber \in 0..(Len(doc) - 1) :
          parseTaskLine(doc[lineNumber + 1]) = <<>>
    /\ outcome' = "not a task"
    /\ UNCHANGED <<doc, clicks>>
    /\ ClickFrame

\* the handler takes the click and rewrites the line
ClickToggle ==
    /\ pc = "editing"
    /\ isInPluginFolder(filePath, rollFolder)
    /\ \E lineNumber \in 0..(Len(doc) - 1) :
          LET lineContent == doc[lineNumber + 1]
              parsed      == parseTaskLine(lineContent)
          IN  /\ parsed # <<>>
              /\ clicks[lineNumber + 1] < MaxClicks
              /\ LET nextState == getNextTaskState(parsed[1].state)
                 IN  doc' = [doc EXCEPT ![lineNumber + 1] =
                                parsed[1].prefix \o TemplateText(nextState) \o parsed[1].suffix]
              /\ clicks' = [clicks EXCEPT ![lineNumber + 1] = @ + 1]
    /\ outcome' = "toggled"
    /\ ClickFrame

NextClick == ClickPassedOn \/ ClickNotTask \/ ClickToggle

SpecClick == InitClick /\ [][NextClick]_vars

----------------------------------------------------------------------------
(* SpecRollover: up to MaxRollovers invocations of PageManager.rollover on a  *)
(* vault that holds a Now and a Next page. An invocation runs from one await  *)
(* to the next in one step; a host operation takes effect, or throws, in the  *)
(* step in which its await returns.                                           *)

FirstDate == <<"2024-12-18">>

LaterDate == <<"2024-12-19">>

\* a page as the user left it: the metadata block of buildPageTemplate and a body
PageText(startDate, bodyLines) ==
    <<"-", "-", "-", NL, "s", "t", "a", "r", "t", "e", "d", ":", " ">> \o startDate \o <<NL, "-", "-", "-", NL>>
        \o <<NL>> \o join(bodyLines, <<NL>>) \o <<NL>>

\* a page as create leaves it, and pages the user has worked on
CreatedPage(pageType) == buildPageTemplate(pageType, FirstDate, <<>>)

AllDonePage == PageText(FirstDate, << <<"-", " ", "[", "x", "]", " ", "c">> >>)

WorkedPage ==
    PageText(FirstDate, << <<"-", " ", "[", " ", "]", " ", "a">>, <<"n", "o">>, <<"#", "#", " ", "B">>, <<"\t", "-", " ", "[", "/", "]", "\t", "b">>, <<"-", " ", "[", " ", "]", " ", " ", "d">>, <<"-", " ", "[", "?", "]", "e">> >>)

WorkedNextPage == PageText(FirstDate, << <<"#", "#", " ", "B">>, <<"\t", "-", " ", "[", "/", "]", "\t", "b">>, <<"-", " ", "[", "x", "]", " ", "c">> >>)

\* a page the user wrote without metadata block
PlainPage == <<"-", " ", "[", " ", "]", " ", "a", NL>>

\* a page that has its ended date already
EndedPage == <<"-", "-", "-", NL, "s", "t", "a", "r", "t", "e", "d", ":", " ">> \o FirstDate \o <<NL, "e", "n", "d", "e", "d", ":", " ">> \o FirstDate \o
    <<NL, "-", "-", "-", NL, NL, "-", " ", "[", "/", "]", " ", "b", NL>>

\* the vaults the invocations start from: the roll folder setting, the day, and
\* the text of the Now and of the Next page
Vaults ==
    { [rollFolder |-> <<"R", "o", "l", "l">>, today |-> LaterDate,
       now |-> CreatedPage("now"), next |-> EndedPage],
      [rollFolder |-> <<"R", "o", "l", "l">>, today |-> FirstDate,
       now |-> PlainPage, next |-> WorkedNextPage],
      [rollFolder |-> <<>>, today |-> FirstDate,
       now |-> WorkedPage, next |-> CreatedPage("next")],
      [rollFolder |-> <<>>, today |-> LaterDate,
       now |-> AllDonePage, next |-> WorkedNextPage] }

IdleRollover ==
    [pc |-> "idle", pageType |-> "now", file |-> 0, started |-> <<>>, today |-> <<>>,
     template |-> <<>>, taskCount |-> 0, tempFile |-> 0, newPath |-> <<>>,
     notice |-> "none", fault |-> FALSE, overlapped |-> FALSE, before |-> <<>>]

Running(r) == r.pc \notin {"idle", "done"}

InitRollover ==
    /\ \E v \in Vaults :
          /\ rollFolder = v.rollFolder
          /\ today = v.today
          /\ files = << [path |-> getFilePath("now"), text |-> v.now],
                        [path |-> getFilePath("next"), text |-> v.next] >>
    /\ folders = IF rollFolder # <<>> THEN {rollFolder} ELSE {}
    /\ rollovers = [p \in 1..MaxRollovers |-> IdleRollover]
    /\ pc = "vault"
    /\ NoParse /\ NoFilter /\ NoClicks /\ NoCall

RolloverFrame ==
    /\ UNCHANGED <<rollFolder, today, pc>>
    /\ UNCHANGED <<parseVars, filterVars, clickVars, callVars>>

\* the outcomes of a host operation: it returns (TRUE) or throws (FALSE)
Outcomes ==
    IF Cardinality({q \in 1..MaxRollovers : rollovers[q].fault}) < MaxFailures
    THEN BOOLEAN
    ELSE {TRUE}

\* the catch of rollover
Catch(p, ok) ==
    rollovers' = [rollovers EXCEPT ![p] =
                    [@ EXCEPT !.pc = "done", !.notice = "error", !.fault = ~ok]]

\* rollover(pageType) is called: getFile, getTodayDate, and vault.read is awaited
Start(p) ==
    /\ rollovers[p].pc = "idle"
    /\ p > 1 => rollovers[p - 1].pc # "idle"
    /\ \E pageType \in PageTypes :
          LET file == FileAt(files, getFilePath(pageType))
          IN  IF file = 0
              THEN rollovers' = [rollovers EXCEPT ![p] =
                      [@ EXCEPT !.pc = "done", !.pageType = pageType, !.notice = "no page"]]
              ELSE rollovers' = [q \in 1..MaxRollovers |->
                      IF q = p
                      THEN [rollovers[p] EXCEPT
                              !.pc = "read", !.pageType = pageType, !.file = file,
                              !.started = FrontMatterField(files[file].text, Started),
                              !.today = today,
                              !.before = files[file].text,
                              !.overlapped = \E o \in 1..MaxRollovers : Running(rollovers[o])]
                      ELSE IF Running(rollovers[q])
                      THEN [rollovers[q] EXCEPT !.overlapped = TRUE]
                      ELSE rollovers[q]]
    /\ UNCHANGED <<files, folders>>
    /\ RolloverFrame

\* ReadDone in which the old page is marked as ended before vault.create
ReadDone_MarksFirst(p) ==
    LET r == rollovers[p]
    IN  /\ r.pc = "read"
        /\ \E ok \in Outcomes :
              IF ok
              THEN LET allSections    == parseSections(files[r.file].text)
                       rolledSections == filterIncompleteSections(allSections)
                   IN  /\ rollovers' = [rollovers EXCEPT ![p] =
                             [@ EXCEPT !.pc = "create",
                                       !.template = buildPageTemplate(r.pageType, r.today, rolledSections),
                                       !.taskCount = Len(FlatTasks(rolledSections))]]
                       /\ files' = [files EXCEPT ![r.file].text = markAsEndedText(@, r.today)]
              ELSE /\ Catch(p, ok)
                   /\ UNCHANGED files
        /\ UNCHANGED folders
        /\ RolloverFrame

\* vault.read returns: parseSections, filterIncompleteSections, buildPageTemplate,
\* and vault.create is awaited
ReadDone(p) ==
    LET r == rollovers[p]
    IN  /\ r.pc = "read"
        /\ \E ok \in Outcomes :
              IF ok
              THEN LET allSections    == parseSections(files[r.file].text)
                       rolledSections == filterIncompleteSections(allSections)
                   IN  rollovers' = [rollovers EXCEPT ![p] =
                          [@ EXCEPT !.pc = "create",
                                    !.template = buildPageTemplate(r.pageType, r.today, rolledSections),
                                    !.taskCount = Len(FlatTasks(rolledSections))]]
              ELSE Catch(p, ok)
        /\ UNCHANGED <<files, folders>>
        /\ RolloverFrame

\* vault.create returns, and processFrontMatter is awaited in markAsEnded
CreateDone(p) ==
    LET r == rollovers[p]
        tempPath == TempPath(r.pageType)
    IN  /\ r.pc = "create"
        /\ \E ok \in Outcomes :
              IF ok /\ ~getAbstractFileByPath(tempPath)
              THEN /\ files' = Append(files, [path |-> tempPath, text |-> r.template])
                   /\ rollovers' = [rollovers EXCEPT ![p] =
                         [@ EXCEPT !.pc = "mark", !.tempFile = Len(files) + 1]]
              ELSE /\ Catch(p, ok)
                   /\ UNCHANGED files
        /\ UNCHANGED folders
        /\ RolloverFrame

\* archive up to its first await: createFolder if the archive folder is missing,
\* otherwise the search of a free name and renameFile
ArchiveCall(p, r) ==
    IF ~getAbstractFileByPath(ArchivePath)
    THEN [r EXCEPT !.pc = "mkdir"]
    ELSE [r EXCEPT !.pc = "archive",
                   !.newPath = ArchiveTarget(r.pageType,
                                   IF r.started = <<>> THEN r.today ELSE r.started[1],
                                   r.today)]

\* processFrontMatter returns or throws (markAsEnded catches), and archive starts
MarkDone(p) ==
    LET r == rollovers[p]
    IN  /\ r.pc = "mark"
        /\ \E ok \in Outcomes :
              /\ files' = IF ok
                          THEN [files EXCEPT ![r.file].text = markAsEndedText(@, r.today)]
                          ELSE files
              /\ rollovers' = [rollovers EXCEPT ![p] =
                    ArchiveCall(p, [r EXCEPT !.fault = ~ok])]
        /\ UNCHANGED folders
        /\ RolloverFrame

\* createFolder returns, and archive goes on to renameFile
MkdirDone(p) ==
    LET r == rollovers[p]
    IN  /\ r.pc = "mkdir"
        /\ \E ok \in Outcomes :
              IF ok /\ ~getAbstractFileByPath(ArchivePath)
              THEN /\ folders' = folders \cup {ArchivePath}
                   /\ rollovers' = [rollovers EXCEPT ![p] =
                         [r EXCEPT !.pc = "archive",
                                   !.newPath = ArchiveTarget(r.pageType,
                                       IF r.started = <<>> THEN r.today ELSE r.started[1],
                                       r.today)]]
              ELSE /\ Catch(p, ok)
                   /\ UNCHANGED folders
        /\ UNCHANGED files
        /\ RolloverFrame

\* renameFile of the old page returns, and renameFile of the temp file is awaited
ArchiveDone(p) ==
    LET r == rollovers[p]
    IN  /\ r.pc = "archive"
        /\ \E ok \in Outcomes :
              IF ok /\ ~getAbstractFileByPath(r.newPath)
              THEN /\ files' = [files EXCEPT ![r.file].path = r.newPath]
                   /\ rollovers' = [rollovers EXCEPT ![p] = [@ EXCEPT !.pc = "rename"]]
              ELSE /\ Catch(p, ok)
                   /\ UNCHANGED files
        /\ UNCHANGED folders
        /\ RolloverFrame

\* renameFile of the temp file returns, and leaf.openFile is awaited
RenameDone(p) ==
    LET r == rollovers[p]
        pagePath == getFilePath(r.pageType)
    IN  /\ r.pc = "rename"
        /\ \E ok \in Outcomes :
              IF ok /\ ~getAbstractFileByPath(pagePath)
              THEN /\ files' = [files EXCEPT ![r.tempFile].path = pagePath]
                   /\ rollovers' = [rollovers EXCEPT ![p] = [@ EXCEPT !.pc = "open"]]
              ELSE /\ Catch(p, ok)
                   /\ UNCHANGED files
        /\ UNCHANGED folders
        /\ RolloverFrame

\* leaf.openFile returns, the cursor is set and the Notice is shown
OpenDone(p) ==
    LET r == rollovers[p]
    IN  /\ r.pc = "open"
        /\ \E ok \in Outcomes :
              IF ok
              THEN rollovers' = [rollovers EXCEPT ![p] =
                      [@ EXCEPT !.pc = "done",
                                !.notice = IF r.taskCount > 0 THEN "rolled" ELSE "no tasks"]]
              ELSE Catch(p, ok)
        /\ UNCHANGED <<files, folders>>
        /\ RolloverFrame

NextRollover ==
    \E p \in 1..MaxRollovers :
        \/ Start(p)
        \/ ReadDone(p)
        \/ CreateDone(p)
        \/ MarkDone(p)
        \/ MkdirDone(p)
        \/ ArchiveDone(p)
        \/ RenameDone(p)
        \/ OpenDone(p)

SpecRollover == InitRollover /\ [][NextRollover]_vars

----------------------------------------------------------------------------
(* SpecTemplate: buildPageTemplate called on its own, for each page type, on   *)
(* a start date and on every list of up to MaxSections sections with up to    *)
(* MaxTasks tasks in all, every section with a task as parseSections and      *)
(* filterIncompleteSections leave them                                        *)

\* a date as getTodayDate formats it, and a string that is no date
StartDates == { <<"2024-12-18">>, <<"s", "o", "o", "n">> }

RolledHeaders ==
    { <<>>,
      << <<"#", " ", "A">> >>,
      << <<"#", " ", "A">>, <<"#", "#", " ", "B">> >> }

\* the tasks of a rolled section: a task that reads like an example task of
\* the default body, an indented task in progress, and one without text
RolledTasks ==
    { [state |-> " ", indent |-> <<>>, text |-> <<"n", "e", "w", " ", "t", "a", "s", "k">>],
      [state |-> "/", indent |-> <<"\t">>, text |-> <<"b">>],
      [state |-> " ", indent |-> <<" ", " ">>, text |-> <<>>] }

RolledSection(headers, tasks, from) ==
    [headers |-> headers,
     tasks   |-> [k \in 1..Len(tasks) |->
                    [line   |-> from + k - 1,
                     state  |-> tasks[k].state,
                     text   |-> tasks[k].text,
                     indent |-> tasks[k].indent,
                     raw    |-> taskToMarkdown(tasks[k])]]]

InitTemplate ==
    /\ \E pageType \in PageTypes : \E startDate \in StartDates :
          call = <<[pageType |-> pageType, startDate |-> startDate, rolledSections |-> <<>>]>>
    /\ returned = <<>>
    /\ pc = "arguments"
    /\ NoParse /\ NoFilter
    /\ NoClicks /\ rollFolder = <<>>
    /\ NoVault

TemplateFrame ==
    /\ UNCHANGED <<parseVars, filterVars>>
    /\ UNCHANGED <<clickVars, rollFolder, vaultVars>>

\* the caller builds the argument rolledSections
AddRolledSection ==
    /\ pc = "arguments"
    /\ Len(call[1].rolledSections) < MaxSections
    /\ \E headers \in RolledHeaders :
       \E n \in 1..(MaxTasks - TaskCount(call[1].rolledSections)) :
       \E tasks \in [1..n -> RolledTasks] :
          call' = <<[call[1] EXCEPT !.rolledSections =
                       Append(@, RolledSection(headers, tasks, TaskCount(@)))]>>
    /\ UNCHANGED <<returned, pc>>
    /\ TemplateFrame

BuildTemplate ==
    /\ pc = "arguments"
    /\ returned' = <<buildPageTemplate(call[1].pageType, call[1].startDate,
                                       call[1].rolledSections)>>
    /\ pc' = "built"
    /\ UNCHANGED call
    /\ TemplateFrame

NextTemplate == AddRolledSection \/ BuildTemplate

SpecTemplate == InitTemplate /\ [][NextTemplate]_vars

----------------------------------------------------------------------------
(* SpecNames: formatArchivedFileName called on its own, for each page type,   *)
(* on two dates and without a counter or with one of 0..MaxCounter            *)

\* the dates of a page: two days, and the day as a string that is no date
NameDates == { <<"2024-12-18">>, <<"2024-12-19">>, <<"s", "o", "o", "n">> }

\* the optional parameter: <<>> when the caller leaves it out
Counters == { <<>> } \cup { <<n>> : n \in 0..MaxCounter }

\* an absent counter is undefined, which is falsy as 0 is
CounterArg(counter) == IF counter = <<>> THEN 0 ELSE counter[1]

InitNames ==
    /\ \E pageType \in PageTypes : \E started \in NameDates : \E ended \in NameDates :
       \E counter \in Counters :
          call = <<[pageType |-> pageType, started |-> started, ended |-> ended,
                    counter |-> counter]>>
    /\ returned = <<>>
    /\ pc = "arguments"
    /\ NoParse /\ NoFilter
    /\ NoClicks /\ rollFolder = <<>>
    /\ NoVault

FormatName ==
    /\ pc = "arguments"
    /\ returned' = <<formatArchivedFileName(call[1].pageType, call[1].started,
                                            call[1].ended, CounterArg(call[1].counter))>>
    /\ pc' = "named"
    /\ UNCHANGED call
    /\ UNCHANGED <<parseVars, filterVars>>
    /\ UNCHANGED <<clickVars, rollFolder, vaultVars>>

NextNames == FormatName

SpecNames == InitNames /\ [][NextNames]_vars

----------------------------------------------------------------------------
(* The rollover menu item and the command "Rollover this page" *)

\* the folders of the files a menu is opened on
MenuFolders ==
    { <<>>, <<"R", "o", "l", "l", "/">>, <<"R", "o", "l", "l", "/", "A", "r", "c", "h", "i", "v", "e", "/">>,
      <<"O", "t", "h", "e", "r", "/">> }

\* the names of the files a menu is opened on
MenuNames ==
    { <<"N", "o", "w", ".", "m", "d">>, <<"N", "e", "x", "t", ".", "m", "d">>,
      <<"U", "p", " ", "N", "e", "x", "t", ".", "m", "d">>,
      <<"N", "o", "w", ".", "t", "m", "p", ".", "m", "d">>,
      <<"n", "o", "w", ".", "m", "d">>, <<"N", "o", "t", "e", "s", ".", "m", "d">>,
      <<"N", "o", "w", ".", "m", "d", ".", "b", "a", "k">> }

MenuPaths == { f \o n : f \in MenuFolders, n \in MenuNames }

InitMenu ==
    /\ rollFolder \in RollFolders
    /\ filePath \in MenuPaths
    /\ call = <<>>
    /\ returned = <<>>
    /\ pc = "file"
    /\ doc = <<>> /\ doc0 = <<>> /\ clicks = <<>> /\ outcome = "none"
    /\ NoParse /\ NoFilter /\ NoVault

MenuFrame ==
    /\ UNCHANGED <<rollFolder, clickVars>>
    /\ UNCHANGED <<parseVars, filterVars, vaultVars>>

\* a file menu or editor menu is opened on the file: addRolloverMenuItem
AddRolloverMenuItem ==
    /\ pc = "file"
    /\ returned' = detectPageType(filePath)
    /\ pc' = IF returned' # <<>> THEN "item" ELSE "no item"
    /\ UNCHANGED call
    /\ MenuFrame

\* the command palette asks whether the command applies: checkCallback(true)
CheckCommand ==
    /\ pc = "file"
    /\ returned' = detectPageType(filePath)
    /\ pc' = IF returned' # <<>> THEN "command" ELSE "no command"
    /\ UNCHANGED call
    /\ MenuFrame

\* the item is clicked or the command is run: rolloverPage(pageType), which
\* takes the file at getFilePath(pageType)
RolloverPage ==
    /\ pc \in {"item", "command"}
    /\ call' = <<[pageType |-> returned[1], path |-> getFilePath(returned[1])]>>
    /\ pc' = "rollover"
    /\ UNCHANGED returned
    /\ MenuFrame

NextMenu == AddRolloverMenuItem \/ CheckCommand \/ RolloverPage

SpecMenu == InitMenu /\ [][NextMenu]_vars

----------------------------------------------------------------------------
(* Properties of parseSections, checked under SpecParse *)

IsHeaderLine(l) == HEADER_PATTERN(l)
IsTaskLine(l) == ~HEADER_PATTERN(l) /\ TASK_PATTERN(l) # <<>>
IsOtherLine(l) == ~HEADER_PATTERN(l) /\ TASK_PATTERN(l) = <<>>

\* the sections built so far, the one under construction included
Built ==
    IF pc = "loop" THEN sections \o currentSection ELSE sections

\* the header lines among lines[lo+1 .. hi+1] (zero-based lo..hi), in order
RECURSIVE HeadersIn(_, _)
HeadersIn(lo, hi) ==
    IF lo > hi THEN <<>>
    ELSE (IF IsHeaderLine(lines[lo + 1]) THEN <<lines[lo + 1]>> ELSE <<>>)
         \o HeadersIn(lo + 1, hi)

\* C2: every Section that parseSections keeps has at least one task, and a
\* text with header lines but no task line parses to the empty sequence.
C2_NoSectionWithoutTasks ==
    /\ \A k \in 1..Len(sections) : Len(sections[k].tasks) > 0
    /\ \A k \in 1..Len(rtResult) : Len(rtResult[k].tasks) > 0
    /\ (pc = "parsed" /\ \A k \in 1..Len(lines) : ~IsTaskLine(lines[k]))
          => sections = <<>>

C2_Witness ==
    /\ pc = "parsed"
    /\ Len(lines) = MaxLines
    /\ \A k \in 1..Len(lines) : IsHeaderLine(lines[k]) \/ lines[k] = <<>>
    /\ Cardinality({k \in 1..Len(lines) : IsHeaderLine(lines[k])}) >= 2
    /\ sections = <<>>

\* C3, step by step: a header line is appended to the header list of the
\* section being built when that section has no task yet; otherwise the
\* section being built (if any) is finalized and a new section starts whose
\* header list is that line alone.
C3_HeaderStep ==
    (pc = "loop" /\ i < Len(lines) /\ IsHeaderLine(lines[i + 1]) /\ i' = i + 1) =>
        IF currentSection # <<>> /\ currentSection[1].tasks = <<>>
        THEN /\ sections' = sections
             /\ currentSection' =
                   <<[headers |-> Append(currentSection[1].headers, lines[i + 1]),
                      tasks   |-> <<>>]>>
        ELSE /\ sections' = sections \o currentSection
             /\ currentSection' = <<[headers |-> <<lines[i + 1]>>, tasks |-> <<>>]>>

\* C3, as a whole: the header list of every section is exactly the run of
\* header lines between the last task of the section before it and its own
\* first task, in source order, and no header line lies between two tasks of
\* one section.
C3_HeaderRuns ==
    \A k \in 1..Len(Built) :
        LET s     == Built[k]
            lo    == IF k = 1 THEN 0
                     ELSE Built[k - 1].tasks[Len(Built[k - 1].tasks)].line + 1
            hi    == IF s.tasks = <<>> THEN i - 1 ELSE s.tasks[1].line - 1
            last  == IF s.tasks = <<>> THEN hi ELSE s.tasks[Len(s.tasks)].line
        IN  /\ s.headers = HeadersIn(lo, hi)
            /\ \A j \in (hi + 1)..last : ~IsHeaderLine(lines[j + 1])

\* C3: the grouping of header lines into sections by parseSections.
C3_HeaderGrouping == [][C3_HeaderStep]_vars /\ []C3_HeaderRuns

C3_Witness ==
    /\ pc = "parsed"
    /\ IsTaskLine(lines[1])
    /\ Len(sections) = 2
    /\ Len(sections[2].headers) = 1
    /\ sections[1].headers = <<>>

\* parseSections of the text without its lines that are neither header nor task
RECURSIVE DropOtherLines(_)
DropOtherLines(ls) ==
    IF ls = <<>> THEN <<>>
    ELSE (IF IsOtherLine(Head(ls)) THEN <<>> ELSE <<Head(ls)>>) \o DropOtherLines(Tail(ls))

\* a section list without the line numbers of its tasks
NoLineNumbers(secs) ==
    [k \in 1..Len(secs) |->
        [headers |-> secs[k].headers,
         tasks   |-> [j \in 1..Len(secs[k].tasks) |->
                        [state  |-> secs[k].tasks[j].state,
                         text   |-> secs[k].tasks[j].text,
                         indent |-> secs[k].tasks[j].indent,
                         raw    |-> secs[k].tasks[j].raw]]]]

C4_OtherStep ==
    (pc = "loop" /\ i < Len(lines) /\ IsOtherLine(lines[i + 1]) /\ i' = i + 1) =>
        /\ sections' = sections
        /\ currentSection' = currentSection

C4_SameAsWithout ==
    pc = "parsed" =>
        NoLineNumbers(sections) =
            NoLineNumbers(parseSections(join(DropOtherLines(lines), <<NL>>)))

\* C4: a blank line and a line that is neither header nor task change neither
\* the section being built nor the sections already closed, so the result is
\* the one of the text without these lines.
C4_OtherLinesIgnored == [][C4_OtherStep]_vars /\ []C4_SameAsWithout

C4_Witness ==
    /\ pc = "parsed"
    /\ Len(lines) = 3
    /\ IsHeaderLine(lines[1])
    /\ IsOtherLine(lines[2]) /\ lines[2] # <<>>
    /\ IsTaskLine(lines[3])
    /\ Len(sections) = 1
    /\ sections[1].headers = <<lines[1]>>
    /\ Len(sections[1].tasks) = 1

\* C8: a section made by parseSections, serialized by sectionToMarkdown and
\* joined by newlines, parses to one section with the same headers and the
\* same task states, texts and indents.
C8_RoundTrip ==
    pc = "reparsed" =>
        /\ Len(rtResult) = 1
        /\ rtResult[1].headers = rtSection[1].headers
        /\ Len(rtResult[1].tasks) = Len(rtSection[1].tasks)
        /\ \A k \in 1..Len(rtSection[1].tasks) :
              /\ rtResult[1].tasks[k].state = rtSection[1].tasks[k].state
              /\ rtResult[1].tasks[k].text = rtSection[1].tasks[k].text
              /\ rtResult[1].tasks[k].indent = rtSection[1].tasks[k].indent

C8_Witness ==
    /\ pc = "reparsed"
    /\ Len(rtSection[1].headers) >= 1
    /\ Len(rtSection[1].tasks) >= 2
    /\ \E k \in 1..Len(rtSection[1].tasks) :
          /\ rtSection[1].tasks[k].indent # <<>>
          /\ rtSection[1].tasks[k].raw # taskToMarkdown(rtSection[1].tasks[k])
    /\ Len(rtResult) = 1

\* what follows the "]" of the checkbox marker in a task's source line
AfterMarker(t) == SubSeq(t.raw, Len(t.indent) + 6, Len(t.raw))

AllTasks == FlatTasks(sections)

----------------------------------------------------------------------------
(* Properties of the filters, checked under SpecFilter *)

SectionsFiltered == pc \in
    {"sections filtered", "sections filtered twice", "tasks filtered", "tasks filtered twice"}

Unfinished(t) == t.state \in {" ", "/"}

\* the indices of the sections of fSections with an unfinished task, ascending
RECURSIVE SurvivorsFrom(_)
SurvivorsFrom(k) ==
    IF k > Len(fSections) THEN <<>>
    ELSE (IF \E j \in 1..Len(fSections[k].tasks) : Unfinished(fSections[k].tasks[j])
          THEN <<k>> ELSE <<>>) \o SurvivorsFrom(k + 1)

Survivors == SurvivorsFrom(1)

Range(f) == { f[x] : x \in DOMAIN f }

\* the sections of fSections in which fOnce[m] can have its origin: those that
\* hold every task of fOnce[m]
Origins(m) ==
    { k \in 1..Len(fSections) : Range(fOnce[m].tasks) \subseteq Range(fSections[k].tasks) }

\* C5: the task list of a surviving section is exactly the tasks of its input
\* section in state " " or "/", in their original order: no done task is
\* kept, no todo or in-progress task is dropped.
C5_SurvivingTasks ==
    SectionsFiltered =>
        \A m \in 1..Len(fOnce) :
            /\ m <= Len(Survivors)
            /\ LET in  == fSections[Survivors[m]].tasks
                   out == fOnce[m].tasks
               IN  /\ Range(out) = { t \in Range(in) : Unfinished(t) }
                   /\ \A j \in 1..Len(out) : out[j].state # "x"
                   /\ \A j \in 1..(Len(out) - 1) : out[j].line < out[j + 1].line
                   /\ Len(out) = Cardinality({ j \in 1..Len(in) : Unfinished(in[j]) })

C5_Witness ==
    /\ SectionsFiltered
    /\ Len(fSections) >= 1
    /\ [k \in 1..Len(fSections[1].tasks) |-> fSections[1].tasks[k].state] = <<" ", "x", "/">>
    /\ Len(fOnce) = 1
    /\ [k \in 1..Len(fOnce[1].tasks) |-> fOnce[1].tasks[k].state] = <<" ", "/">>

\* C6: the output is exactly the input sections with an unfinished task, in
\* input order, each with its header list unchanged; a section without one is
\* gone with its headers, and no output section has an empty task list.
C6_SurvivingSections ==
    SectionsFiltered =>
        /\ Len(fOnce) = Len(Survivors)
        /\ \A m \in 1..Len(fOnce) :
              /\ m <= Len(Survivors)
              /\ fOnce[m].headers = fSections[Survivors[m]].headers
              /\ Len(fOnce[m].tasks) > 0
              /\ Survivors[m] \in Origins(m)

C6_Witness ==
    /\ SectionsFiltered
    /\ Len(fSections) = 2
    /\ fSections[1].headers # <<>>
    /\ fSections[1].tasks # <<>>
    /\ \A j \in 1..Len(fSections[1].tasks) : fSections[1].tasks[j].state = "x"
    /\ fSections[2].headers # <<>>
    /\ Len(fOnce) = 1
    /\ fOnce[1].headers = fSections[2].headers

\* C7: filtering is idempotent, for filterIncompleteSections and for
\* filterIncomplete: the second application returns its argument.
C7_Idempotent ==
    /\ pc \in {"sections filtered twice", "tasks filtered", "tasks filtered twice"}
          => fTwice = fOnce
    /\ pc = "tasks filtered twice" => tTwice = tOnce

C7_Witness ==
    /\ pc = "tasks filtered twice"
    /\ fOnce # fSections /\ fOnce # <<>> /\ fTwice = fOnce
    /\ tOnce # FlatTasks(fSections) /\ tOnce # <<>> /\ tTwice = tOnce

----------------------------------------------------------------------------
(* Properties of the click handler, checked under SpecClick *)

\* the cycle [ ] -> [/] -> [x] -> [ ]
Cycle == <<" ", "/", "x">>

CycleIndex(state) == CHOOSE k \in 1..3 : Cycle[k] = state

\* the lines that were task lines in one of the three states before the first click
TriStateLines ==
    { k \in 1..Len(doc0) :
        /\ parseTaskLine(doc0[k]) # <<>>
        /\ parseTaskLine(doc0[k])[1].state \in TaskStates }

\* C9: getNextTaskState goes round the cycle " " -> "/" -> "x" -> " ": after n
\* applications a state has moved n places along it, so three applications
\* give the state back and one or two never do.
C9_StateCycle ==
    \A k \in TriStateLines :
        LET s0 == parseTaskLine(doc0[k])[1].state
            s  == parseTaskLine(doc[k])[1].state
        IN  /\ parseTaskLine(doc[k]) # <<>>
            /\ s = Cycle[((CycleIndex(s0) - 1 + clicks[k]) % 3) + 1]
            /\ (s = s0) <=> (clicks[k] % 3 = 0)

C9_Witness ==
    /\ Len(doc) = 2
    /\ TriStateLines = {1, 2}
    /\ clicks = <<3, 1>>
    /\ doc[1] = doc0[1]
    /\ doc[2] # doc0[2]
    /\ { parseTaskLine(doc0[1])[1].state, parseTaskLine(doc0[2])[1].state } = {"x", "/"}

----------------------------------------------------------------------------
(* Properties of rollover, checked under SpecRollover *)

\* the state and the text of each task of a page, in the order of the page
TaskLines(text) ==
    [k \in 1..Len(parseTasks(text)) |->
        <<parseTasks(text)[k].state, parseTasks(text)[k].text>>]

\* the tasks of a page in state " " or "/", in the order of the page
UnfinishedLines(text) ==
    SelectSeq(TaskLines(text), LAMBDA t : t[1] \in {" ", "/"})

\* invocation p has returned, every host operation it awaited has succeeded, no
\* other invocation ran while it did, and none was made since
RolledAlone(p) ==
    /\ rollovers[p].pc = "done"
    /\ rollovers[p].notice \in {"rolled", "no tasks"}
    /\ ~rollovers[p].fault
    /\ ~rollovers[p].overlapped
    /\ \A q \in 1..MaxRollovers : q > p => rollovers[q].pc = "idle"

\* C1: after a rollover(pageType) in which every host operation succeeds, the
\* file at the page's canonical path is a new page whose tasks are exactly the
\* old page's tasks in state " " or "/", in their original order, nothing else
\* added, and the old page's file is in the archive folder and no longer at the
\* canonical path.
C1_RolloverResult ==
    \A p \in 1..MaxRollovers :
        RolledAlone(p) =>
            LET r       == rollovers[p]
                newFile == FileAt(files, getFilePath(r.pageType))
            IN  /\ newFile # 0
                /\ newFile # r.file
                /\ newFile = r.tempFile
                /\ startsWith(files[r.file].path, ArchivePath \o <<"/">>)
                /\ TaskLines(files[newFile].text) = UnfinishedLines(files[r.file].text)

----------------------------------------------------------------------------
(* Properties of HEADER_PATTERN as parseSections uses it, checked under SpecHeader *)

\* the typed line, once parsed
TypedLine == lines[1]

\* parseSections has taken the typed line as the header of the task under it
TreatedAsHeader == Len(sections) = 1 /\ sections[1].headers = <<TypedLine>>

\* the line starts at column 0 with 1 to 6 '#', then at least one whitespace
\* character, then at least one non-whitespace character
HeaderAsClaimed(line) ==
    LET h == HashRun(line, 1)
        w == SpaceRun(line, h + 1)
    IN  /\ h \in 1..6
        /\ w >= 1
        /\ h + w < Len(line)

\* the line starts at column 0 with 1 to 6 '#', then a run of whitespace, then
\* a rest without line terminator; the rest is not empty, or the run has two
\* characters or more and does not end in a line terminator
HeaderAsMatched(line) ==
    LET h == HashRun(line, 1)
        w == SpaceRun(line, h + 1)
    IN  /\ h \in 1..6
        /\ w >= 1
        /\ \A k \in (h + w + 1)..Len(line) : line[k] \notin {"\r", "\n"}
        /\ \/ h + w < Len(line)
           \/ w >= 2 /\ line[h + w] \notin {"\r", "\n"}

\* C11 as stated: a line is treated as a header by the parser exactly when it
\* starts at column 0 with 1 to 6 '#' characters, followed by at least one
\* whitespace character and then at least one non-whitespace character.
C11_HeaderNeedsNonSpace ==
    pc = "parsed" => (TreatedAsHeader <=> HeaderAsClaimed(TypedLine))

\* C11 amended: a line is treated as a header exactly when it starts at column 0
\* with 1 to 6 '#' characters, followed by at least one whitespace character and
\* then at least one further character that is not a line terminator, whitespace
\* or not, with no line terminator after it: '#' and two spaces is a header,
\* '# a' with a carriage return at its end is not. An indented '#' line, a line
\* with 7 or more '#' and a line with nothing or a single whitespace character
\* after the '#'s are not headers.
C11_HeaderGrammar ==
    pc = "parsed" =>
        /\ TreatedAsHeader <=> HeaderAsMatched(TypedLine)
        /\ TypedLine # <<>> /\ TypedLine[1] # "#" => ~TreatedAsHeader
        /\ HashRun(TypedLine, 1) >= 7 => ~TreatedAsHeader
        /\ Len(TypedLine) <= HashRun(TypedLine, 1) + 1 => ~TreatedAsHeader

\* '#' and two spaces has been parsed, and is the header of the task under it
C11_Witness ==
    /\ pc = "parsed"
    /\ TypedLine = <<"#", " ", " ">>
    /\ TreatedAsHeader

----------------------------------------------------------------------------
(* Task lines with another bracket character, checked under SpecParse *)

\* the character between the brackets of a line that has a checkbox marker
\* after its leading whitespace; <<>> when the line has none
BracketChar(line) ==
    LET n == SpaceRun(line, 1)
    IN  IF /\ Len(line) >= n + 5
           /\ SubSeq(line, n + 1, n + 3) = <<"-", " ", "[">>
           /\ line[n + 4] # "]"
           /\ line[n + 5] = "]"
        THEN <<line[n + 4]>>
        ELSE <<>>

OtherState(c) == c \notin {" ", "/", "x"}

\* C12: a task line whose bracket character is not one of " ", "/", "x" is
\* accepted by parseSections as a Task with that character as its state, and
\* taskToMarkdown writes the same character back between the brackets, so that
\* parsing the serialized task gives the same state again.
C12_OtherStateKept ==
    /\ pc \in {"parsed", "reparsed"} =>
          /\ \A k \in 1..Len(lines) :
                (BracketChar(lines[k]) # <<>> /\ OtherState(BracketChar(lines[k])[1])) =>
                    \E n \in 1..Len(AllTasks) :
                        /\ AllTasks[n].line = k - 1
                        /\ AllTasks[n].raw = lines[k]
                        /\ AllTasks[n].state = BracketChar(lines[k])[1]
          /\ \A n \in 1..Len(AllTasks) :
                OtherState(AllTasks[n].state) =>
                    BracketChar(taskToMarkdown(AllTasks[n])) = <<AllTasks[n].state>>
    /\ pc = "reparsed" =>
          /\ Len(FlatTasks(rtResult)) = Len(rtSection[1].tasks)
          /\ \A n \in 1..Len(rtSection[1].tasks) :
                OtherState(rtSection[1].tasks[n].state) =>
                    FlatTasks(rtResult)[n].state = rtSection[1].tasks[n].state

\* a section with a task in state "?" and one in state "X" has been serialized
\* and parsed again
C12_Witness ==
    /\ pc = "reparsed"
    /\ { rtSection[1].tasks[n].state : n \in 1..Len(rtSection[1].tasks) } = {"?", "X"}
    /\ { FlatTasks(rtResult)[n].state : n \in 1..Len(FlatTasks(rtResult)) } = {"?", "X"}

----------------------------------------------------------------------------
(* Properties of sectionToMarkdown, checked under SpecParse *)

\* C13: sectionToMarkdown returns first each header verbatim in order and then
\* one line per task in order, each task as its indent, "- [", its state, "] "
\* and its text; the number of lines is headers.length + tasks.length.
C13_SectionLines ==
    pc = "reparsed" =>
        LET section == rtSection[1]
            out     == sectionToMarkdown(section)
            h       == Len(section.headers)
        IN  /\ Len(out) = h + Len(section.tasks)
            /\ SubSeq(out, 1, h) = section.headers
            /\ \A k \in 1..Len(section.tasks) :
                  LET t == section.tasks[k]
                      n == Len(t.indent)
                  IN  /\ SubSeq(out[h + k], 1, n) = t.indent
                      /\ SubSeq(out[h + k], n + 1, n + 3) = <<"-", " ", "[">>
                      /\ out[h + k][n + 4] = t.state
                      /\ SubSeq(out[h + k], n + 5, n + 6) = <<"]", " ">>
                      /\ SubSeq(out[h + k], n + 7, Len(out[h + k])) = t.text

\* a section with two headers and an indented task has been serialized
C13_Witness ==
    /\ pc = "reparsed"
    /\ Len(rtSection[1].headers) = 2
    /\ \E k \in 1..Len(rtSection[1].tasks) : rtSection[1].tasks[k].indent # <<>>
    /\ Len(sectionToMarkdown(rtSection[1])) = 3

----------------------------------------------------------------------------
(* Properties of buildPageTemplate, checked under SpecTemplate *)

Args == call[1]

\* the lines of the page built: the last piece of the split, after the final
\* newline, is left out
PageLines ==
    LET ls == split(returned[1], NL)
    IN  SubSeq(ls, 1, Len(ls) - 1)

\* the lines after the metadata block and the blank line that follows it
BodyLines ==
    LET ls == PageLines
    IN  SubSeq(ls, 5, Len(ls))

SectionSize(section) == Len(section.headers) + Len(section.tasks)

\* where the lines of section k start in the body, sections one blank line apart
RECURSIVE SectionStart(_, _)
SectionStart(secs, k) ==
    IF k = 1 THEN 1 ELSE SectionStart(secs, k - 1) + SectionSize(secs[k - 1]) + 1

BuiltFor(pageType) ==
    /\ pc = "built"
    /\ Args.pageType = pageType
    /\ Args.rolledSections # <<>>

\* C14: for a 'now' page with a non-empty list of rolled sections, there is
\* exactly one blank line between the last line of each section and the first
\* line of the next, none before the first line of the first section and none
\* after the last line of the last section.
C14_BlankLineBetweenSections ==
    BuiltFor("now") =>
        LET secs == Args.rolledSections
            n    == Len(secs)
            body == BodyLines
        IN  /\ Len(body) = SectionStart(secs, n) + SectionSize(secs[n]) - 1
            /\ \A k \in 1..n :
                  /\ SubSeq(body, SectionStart(secs, k),
                            SectionStart(secs, k) + SectionSize(secs[k]) - 1)
                        = sectionToMarkdown(secs[k])
                  /\ \A l \in 1..SectionSize(secs[k]) : sectionToMarkdown(secs[k])[l] # <<>>
                  /\ k > 1 => body[SectionStart(secs, k) - 1] = <<>>
            /\ body[1] # <<>>
            /\ body[Len(body)] # <<>>

\* a 'now' page has been built from two sections, the second with headers
C14_Witness ==
    /\ BuiltFor("now")
    /\ Len(Args.rolledSections) = 2
    /\ Len(Args.rolledSections[2].headers) = 2
    /\ Cardinality({ l \in 1..Len(BodyLines) : BodyLines[l] = <<>> }) = 1

\* C15: for a 'next' page with a non-empty list of rolled sections, the body is
\* exactly the tasks of all sections in section order then task order, each as
\* "- [", its state, "] " and its text, one per line: no header line, no line
\* that starts with whitespace, no blank line.
C15_FlatTasks ==
    BuiltFor("next") =>
        LET tasks == FlatTasks(Args.rolledSections)
            body  == BodyLines
        IN  /\ Len(body) = Len(tasks)
            /\ \A k \in 1..Len(tasks) :
                  /\ body[k] = <<"-", " ", "[", tasks[k].state, "]", " ">> \o tasks[k].text
                  /\ ~IsWhitespace(body[k][1])
                  /\ ~HEADER_PATTERN(body[k])

\* a 'next' page has been built from two sections with headers, one with an
\* indented task
C15_Witness ==
    /\ BuiltFor("next")
    /\ Len(Args.rolledSections) = 2
    /\ \A k \in 1..2 : Args.rolledSections[k].headers # <<>>
    /\ \E k \in 1..Len(FlatTasks(Args.rolledSections)) :
          FlatTasks(Args.rolledSections)[k].indent # <<>>
    /\ Len(BodyLines) = 3

\* C16: for every page type, start date and section list, the page begins with
\* the lines "---", "started: " and the start date as given, "---", and then
\* one blank line; the start date is not validated.
C16_MetadataBlock ==
    pc = "built" =>
        LET page == PageLines
        IN
        /\ Len(page) >= 5
        /\ page[1] = <<"-", "-", "-">>
        /\ page[2] = <<"s", "t", "a", "r", "t", "e", "d", ":", " ">> \o Args.startDate
        /\ page[3] = <<"-", "-", "-">>
        /\ page[4] = <<>>
        /\ page[5] # <<>>

\* a 'now' page has been built from rolled sections with a start date that is
\* no date
C16_Witness ==
    /\ BuiltFor("now")
    /\ Args.startDate = <<"s", "o", "o", "n">>
    /\ PageLines[2] = <<"s", "t", "a", "r", "t", "e", "d", ":", " ", "s", "o", "o", "n">>

ExampleLines(pageType) ==
    { l \in Range(split(DEFAULT_TEMPLATE_BODIES(pageType), NL)) : l # <<>> }

\* the lines the rolled sections give a page of the type
RolledLines(pageType, secs) ==
    IF pageType = "next"
    THEN { <<"-", " ", "[", t.state, "]", " ">> \o t.text : t \in Range(FlatTasks(secs)) }
    ELSE UNION { Range(sectionToMarkdown(secs[k])) : k \in 1..Len(secs) }

C19_NextDefaultLines ==
    (pc = "built" /\ Args.pageType = "next" /\ Args.rolledSections = <<>>) =>
        { <<"-", " ", "[", " ", "]", " ", "f", "u", "t", "u", "r", "e", " ", "t", "a", "s", "k">>,
          <<"#", "#", "#", " ", "U", "p", "c", "o", "m", "i", "n", "g", " ", "p", "r", "o", "j", "e", "c", "t">>,
          <<"-", " ", "[", " ", "]", " ", "p", "l", "a", "n", "n", "e", "d", " ", "t", "a", "s", "k">> } \subseteq Range(PageLines)

----------------------------------------------------------------------------
(* Properties of formatArchivedFileName, checked under SpecNames *)

DisplayNameOf(pageType) ==
    IF pageType = "now" THEN <<"N", "o", "w">> ELSE <<"N", "e", "x", "t">>

\* the name of the arguments of the call with another counter
NameWith(n) ==
    formatArchivedFileName(call[1].pageType, call[1].started, call[1].ended, n)

\* C20: formatArchivedFileName returns "<DisplayName> <started>~<ended>.md"
\* when the counter is absent or not greater than 1, and
\* "<DisplayName> <started>~<ended> (N).md" when the counter N is greater than
\* 1, with DisplayName "Now" or "Next" by page type; different counters greater
\* than 1 give different names, all different from the name without counter.
C20_ArchivedFileName ==
    pc = "named" =>
        LET a    == call[1]
            base == DisplayNameOf(a.pageType) \o <<" ">> \o a.started \o <<"~">> \o a.ended
        IN  /\ (a.counter = <<>> \/ a.counter[1] <= 1) =>
                  returned[1] = base \o <<".", "m", "d">>
            /\ (a.counter # <<>> /\ a.counter[1] > 1) =>
                  returned[1] = base \o <<" ", "(", ToString(a.counter[1]), ")", ".", "m", "d">>
            /\ \A m, n \in 2..MaxCounter : m # n => NameWith(m) # NameWith(n)
            /\ \A n \in 2..MaxCounter :
                  NameWith(n) \notin { NameWith(0), NameWith(1) }

\* the name of a Next page with counter 1, and with counter MaxCounter
C20_Witness ==
    /\ pc = "named"
    /\ call[1].pageType = "next"
    /\ call[1].counter = <<1>>
    /\ returned[1] = NameWith(0)
    /\ NameWith(MaxCounter) # NameWith(2)

----------------------------------------------------------------------------
(* Properties of isInPluginFolder and of the files the click handler acts on, *)
(* checked under SpecClick                                                    *)

\* for a folder, the path is the folder, a "/" and more, at any depth; without
\* a folder, the path has no "/"
InFolder(path, folderPath) ==
    IF folderPath # <<>>
    THEN /\ Len(path) > Len(folderPath)
         /\ \A k \in 1..Len(folderPath) : path[k] = folderPath[k]
         /\ path[Len(folderPath) + 1] = "/"
    ELSE \A k \in 1..Len(path) : path[k] # "/"

\* the handler has taken a click, or has rewritten a line
HandlerActed == outcome \in {"toggled", "not a task"} \/ doc # doc0

\* C21: isInPluginFolder(filePath, folderPath) is true exactly when, for a
\* non-empty folderPath, filePath starts with folderPath followed by "/", at any
\* depth, and, for an empty folderPath, filePath contains no "/"; the click
\* handler acts only on files for which it is true.
C21_PluginFolderOnly ==
    /\ isInPluginFolder(filePath, rollFolder) <=> InFolder(filePath, rollFolder)
    /\ HandlerActed => InFolder(filePath, rollFolder)

\* a line of a file in a subfolder of the roll folder has been rewritten
C21_Witness ==
    /\ outcome = "toggled"
    /\ rollFolder = <<"R", "o", "l", "l">>
    /\ filePath = <<"R", "o", "l", "l", "/", "A", "/", "N", ".", "m", "d">>
    /\ doc # doc0

----------------------------------------------------------------------------
(* The order of the steps of rollover, checked under SpecRollover *)

\* the invocation that takes the step
Stepping(p) == rollovers'[p].pc # rollovers[p].pc

\* the step changes a file that is in the vault
TouchesFile == \E f \in 1..Len(files) : files'[f] # files[f]

\* a step of an invocation that has not yet got its temp file from vault.create,
\* the step in which reading or creating fails included, changes no file of the
\* vault; a step that changes one is taken with the temp file created and in the
\* vault
C22_TempFileStep ==
    \A p \in 1..MaxRollovers :
        Stepping(p) =>
            /\ rollovers[p].pc \in {"idle", "read", "create"} => ~TouchesFile
            /\ TouchesFile =>
                  /\ rollovers[p].pc \in {"mark", "archive", "rename"}
                  /\ rollovers[p].tempFile \in 1..Len(files)
                  /\ files[rollovers[p].tempFile].text = rollovers[p].template

\* invocation p has returned from its catch without a temp file, no other
\* invocation ran while it did, and none was made since
FailedEarlyAlone(p) ==
    /\ rollovers[p].pc = "done"
    /\ rollovers[p].notice = "error"
    /\ rollovers[p].file # 0
    /\ rollovers[p].tempFile = 0
    /\ ~rollovers[p].overlapped
    /\ \A q \in 1..MaxRollovers : q > p => rollovers[q].pc = "idle"

\* after a rollover that failed at vault.read or vault.create, the old page is
\* at its canonical path with the text it had when rollover was called
C22_OldPageInPlace ==
    \A p \in 1..MaxRollovers :
        FailedEarlyAlone(p) =>
            /\ FileAt(files, getFilePath(rollovers[p].pageType)) = rollovers[p].file
            /\ files[rollovers[p].file].text = rollovers[p].before

\* C22: rollover creates the replacement page under the temp name before it
\* touches the old page: markAsEnded and the archive rename happen only after
\* vault.create of the temp file has succeeded, and if reading the page or
\* creating the temp file fails, the old page is still at its canonical path
\* with unchanged content and frontmatter.
C22_TempFileBeforeOldPage == [][C22_TempFileStep]_vars /\ []C22_OldPageInPlace

\* a rollover has failed at vault.read or vault.create after an earlier one
\* went through: the page the earlier one made is in place
C22_Witness ==
    \E p \in 2..MaxRollovers :
        /\ FailedEarlyAlone(p)
        /\ rollovers[p - 1].notice \in {"rolled", "no tasks"}
        /\ rollovers[p - 1].pageType = rollovers[p].pageType
        /\ rollovers[p].file = rollovers[p - 1].tempFile

----------------------------------------------------------------------------
(* The names archive gives, checked under SpecRollover *)

\* the k-th name of the sequence base, base (2), base (3), ... in the archive
\* folder, for the page of invocation r
ArchiveName(r, k) ==
    ArchivePath \o <<"/">> \o DisplayNameOf(r.pageType) \o <<" ">>
        \o (IF r.started = <<>> THEN r.today ELSE r.started[1]) \o <<"~">> \o r.today
        \o (IF k = 1 THEN <<>> ELSE <<" ", "(", ToString(k), ")">>)
        \o <<".", "m", "d">>

\* archive has chosen its newPath in this step: it is the first name of the
\* sequence at which the vault has nothing, found within as many names as the
\* vault has files, and one more
C23_FirstFreeName ==
    \A p \in 1..MaxRollovers :
        (rollovers'[p].pc = "archive" /\ rollovers[p].pc # "archive") =>
            \E k \in 1..(Len(files) + 1) :
                /\ rollovers'[p].newPath = ArchiveName(rollovers'[p], k)
                /\ FileAt(files', ArchiveName(rollovers'[p], k)) = 0
                /\ \A j \in 1..(k - 1) : FileAt(files', ArchiveName(rollovers'[p], j)) # 0

\* no step takes a file out of the vault, and a file that moves or is created
\* comes to a path at which the vault had nothing
C23_NothingOverwritten ==
    /\ Len(files') >= Len(files)
    /\ \A f \in 1..Len(files') :
          (f > Len(files) \/ files'[f].path # files[f].path) =>
              FileAt(files, files'[f].path) = 0

\* every file of the vault is at a path of its own
C23_DistinctPaths ==
    \A f, g \in 1..Len(files) : f # g => files[f].path # files[g].path

\* C23: archive never overwrites an existing archive entry: it moves the old
\* page to the first name in the sequence base, base (2), base (3), ... at which
\* no file exists in the archive folder, so after any number of rollovers,
\* several on one day with the same started date included, every archived page
\* is still present under its own distinct path; the counter search ends.
C23_ArchiveNeverOverwrites ==
    /\ [][C23_FirstFreeName /\ C23_NothingOverwritten]_vars
    /\ []C23_DistinctPaths

\* two rollovers of a page on the day it was started, one after the other: the
\* first archive entry has the base name, the second the name with (2)
C23_Witness ==
    /\ MaxRollovers >= 2
    /\ \A p \in 1..2 :
          /\ rollovers[p].pc = "done"
          /\ rollovers[p].notice \in {"rolled", "no tasks"}
          /\ ~rollovers[p].overlapped
          /\ files[rollovers[p].file].path = ArchiveName(rollovers[1], p)
    /\ rollovers[1].file # rollovers[2].file

----------------------------------------------------------------------------
(* markAsEnded within rollover, checked under SpecRollover *)

\* the text with the line "ended: <date>" taken out of its metadata block
WithoutEnded(text, date) ==
    LET ls   == split(text, NL)
        line == Ended \o <<":", " ">> \o date
        k    == Len(FrontMatterLines(text)) + 1
    IN  IF k >= 2 /\ ls[k] = line
        THEN join(SubSeq(ls, 1, k - 1) \o SubSeq(ls, k + 1, Len(ls)), <<NL>>)
        ELSE text

\* the step in which processFrontMatter returns to invocation p, or throws
C24_MarkStep ==
    \A p \in 1..MaxRollovers :
        (rollovers[p].pc = "mark" /\ Stepping(p)) =>
            LET r      == rollovers[p]
                old    == files[r.file].text
                new    == files'[r.file].text
                marked == /\ ~rollovers'[p].fault
                          /\ FrontMatterField(old, Started) # <<>>
                          /\ FrontMatterField(old, Ended) = <<>>
            IN  /\ marked =>
                      /\ FrontMatterField(new, Ended) = <<r.today>>
                      /\ FrontMatterField(new, Started) = FrontMatterField(old, Started)
                      /\ new # old
                      /\ WithoutEnded(new, r.today) = old
                /\ ~marked => new = old
                /\ FrontMatterField(old, Ended) # <<>> =>
                      FrontMatterField(new, Ended) = FrontMatterField(old, Ended)
                /\ rollovers'[p].pc \in {"mkdir", "archive"}
                /\ rollovers'[p].notice = "none"
                /\ \A f \in 1..Len(files) : f # r.file => files'[f] = files[f]

\* C24: markAsEnded sets the frontmatter field ended to the given date only when
\* the page has a started value and no ended value; in every other case the
\* frontmatter is left unchanged, so an existing ended date is never
\* overwritten; an error raised while marking is caught and the rollover goes
\* on to archive the page.
C24_MarkAsEnded == [][C24_MarkStep]_vars

\* a page that ended a day earlier has been through markAsEnded and archive
\* and has kept its ended date
C24_Witness ==
    \E p \in 1..MaxRollovers :
        /\ rollovers[p].pc = "done"
        /\ rollovers[p].notice = "rolled"
        /\ rollovers[p].today = LaterDate
        /\ FrontMatterField(rollovers[p].before, Ended) = <<FirstDate>>
        /\ FrontMatterField(files[rollovers[p].file].text, Ended) = <<FirstDate>>
        /\ startsWith(files[rollovers[p].file].path, ArchivePath)

----------------------------------------------------------------------------
(* The effect of a click on the document, checked under SpecClick *)

\* the line the click of this step was on, for a click that rewrote a line
ClickedLines == { k \in 1..Len(doc) : clicks'[k] # clicks[k] }

\* new is old with the one character at position at replaced by the text next
BracketReplaced(old, new, at, next) ==
    /\ Len(new) = Len(old) - 1 + Len(next)
    /\ \A c \in 1..(at - 1) : new[c] = old[c]
    /\ SubSeq(new, at, at + Len(next) - 1) = next
    /\ \A c \in (at + 1)..Len(old) : new[c - 1 + Len(next)] = old[c]

C25_ClickStep ==
    /\ Len(doc') = Len(doc)
    /\ ClickedLines = {} => doc' = doc
    /\ outcome' \in {"not a task", "passed on"} => doc' = doc
    /\ \A k \in ClickedLines :
          LET parsed == parseTaskLine(doc[k])
          IN  /\ ClickedLines = {k}
              /\ outcome' = "toggled"
              /\ parsed # <<>>
              /\ parsed[1].prefix \o <<parsed[1].state>> \o parsed[1].suffix = doc[k]
              /\ doc'[k] = parsed[1].prefix
                             \o TemplateText(getNextTaskState(parsed[1].state))
                             \o parsed[1].suffix
              /\ BracketReplaced(doc[k], doc'[k], Len(parsed[1].prefix) + 1,
                                 TemplateText(getNextTaskState(parsed[1].state)))
              /\ doc[k][Len(parsed[1].prefix)] = "["
              /\ doc[k][Len(parsed[1].prefix) + 2] = "]"
              /\ \A j \in 1..Len(doc) : j # k => doc'[j] = doc[j]

\* C25: a handled click on a task line in state s replaces exactly the bracket
\* character by getNextTaskState(s): parseTaskLine splits the line so that
\* prefix + state + suffix is the line, the new line is prefix + next + suffix,
\* every other character of the line and every other line of the document is
\* unchanged; a click on a line that is no task line changes nothing.
C25_OnlyBracketCharacter == [][C25_ClickStep]_vars

\* "- [x] [c]" above another line has become "- [ ] [c]", the other line being
\* as it was
C25_Witness ==
    /\ Len(doc) = 2
    /\ doc0[1] = <<"-", " ", "[", "x", "]", " ", "[", "c", "]">>
    /\ doc[1] = <<"-", " ", "[", " ", "]", " ", "[", "c", "]">>
    /\ doc[2] = doc0[2]
    /\ clicks = <<1, 0>>
    /\ outcome = "toggled"

----------------------------------------------------------------------------
(* The line a click leaves, checked under SpecClick *)

TriStates == {" ", "/", "x"}

\* C27: every click the handler handles leaves the clicked line a task line:
\* for every line parseTaskLine accepts, a bracket character other than ' ',
\* '/', 'x' included, the rewritten line is again accepted by parseTaskLine and
\* its state is one of ' ', '/', 'x'.
C27_StaysTaskLine ==
    \A k \in 1..Len(doc) :
        clicks[k] > 0 =>
            /\ parseTaskLine(doc[k]) # <<>>
            /\ parseTaskLine(doc[k])[1].state \in TriStates

----------------------------------------------------------------------------
(* The tasks of a text and its task lines, checked under SpecParse *)

\* the tasks ts are the lines among the first n of ls that match the task
\* pattern: one each, in the order of the lines, numbered from zero
OnePerTaskLine(ts, ls, n) ==
    /\ \A k \in 1..Len(ts) :
          /\ ts[k].line \in 0..(n - 1)
          /\ TASK_PATTERN(ls[ts[k].line + 1]) # <<>>
          /\ ts[k].raw = ls[ts[k].line + 1]
          /\ ts[k].state = TASK_PATTERN(ls[ts[k].line + 1])[1].state
          /\ ts[k].text = TASK_PATTERN(ls[ts[k].line + 1])[1].text
    /\ \A k \in 1..Len(ts) : \A m \in 1..Len(ts) :
          k < m => ts[k].line < ts[m].line
    /\ \A l \in 1..n :
          TASK_PATTERN(ls[l]) # <<>> => \E k \in 1..Len(ts) : ts[k].line = l - 1
    /\ Len(ts) = Cardinality({ l \in 1..n : TASK_PATTERN(ls[l]) # <<>> })

\* C26: for every input text, the concatenation of the task lists of
\* parseSections's sections (parseTasks) has exactly one Task for each line that
\* matches the task pattern, in source order, with line the zero-based line
\* number; no task line is lost or duplicated, whatever headers, blank lines
\* and other text surround it.
C26_OneTaskPerTaskLine ==
    /\ pc = "loop" => OnePerTaskLine(FlatTasks(Built), lines, i)
    /\ pc # "loop" =>
          /\ OnePerTaskLine(FlatTasks(sections), lines, Len(lines))
          /\ parseTasks(content) = FlatTasks(sections)

\* an orphan task, a header and a task under it: the tasks of lines 0 and 2
C26_Witness ==
    /\ pc = "parsed"
    /\ Len(lines) = 3
    /\ IsTaskLine(lines[1])
    /\ IsHeaderLine(lines[2])
    /\ IsTaskLine(lines[3])
    /\ Len(sections) = 2
    /\ FlatTasks(sections)[1].line = 0
    /\ FlatTasks(sections)[2].line = 2

----------------------------------------------------------------------------
(* The temp file after rollover has returned, checked under SpecRollover *)

\* invocation p has returned, no other invocation ran while it did, and none
\* was made since
ReturnedAlone(p) ==
    /\ rollovers[p].pc = "done"
    /\ rollovers[p].file # 0
    /\ ~rollovers[p].overlapped
    /\ \A q \in 1..MaxRollovers : q > p => rollovers[q].pc = "idle"

\* C28: whenever rollover returns, whether it succeeded or caught an error at
\* any step, no file remains at the temp path '<DisplayName>.tmp.md', so a
\* later rollover of the same page is never blocked by a stale temp file and
\* the rolled tasks are never left only in a temp file.
C28_NoTempFileLeft ==
    \A p \in 1..MaxRollovers :
        ReturnedAlone(p) => FileAt(files, TempPath(rollovers[p].pageType)) = 0

----------------------------------------------------------------------------
(* Two rollovers of one page type in flight together, checked under SpecRollover *)

\* invocations p and q of one page type have run together and have both
\* returned, no host operation has failed, and nothing is running
RanTogether(p, q) ==
    /\ p < q
    /\ rollovers[p].pc = "done" /\ rollovers[q].pc = "done"
    /\ rollovers[p].file # 0 /\ rollovers[q].file # 0
    /\ rollovers[p].pageType = rollovers[q].pageType
    /\ rollovers[p].overlapped /\ rollovers[q].overlapped
    /\ \A o \in 1..MaxRollovers : ~Running(rollovers[o]) /\ ~rollovers[o].fault

\* no step moves a file that is in the archive folder already
C29_ArchivedOnce ==
    \A f \in 1..Len(files) :
        startsWith(files[f].path, ArchivePath \o <<"/">>) =>
            files'[f].path = files[f].path

\* the vault two such invocations leave
C29_FinalVault ==
    \A p \in 1..MaxRollovers : \A q \in 1..MaxRollovers :
        RanTogether(p, q) =>
            LET r    == rollovers[p]
                page == FileAt(files, getFilePath(r.pageType))
            IN  /\ page # 0
                /\ page # r.file
                /\ FileAt(files, TempPath(r.pageType)) = 0
                /\ startsWith(files[r.file].path, ArchivePath \o <<"/">>)
                /\ \A k \in 1..Len(UnfinishedLines(r.before)) :
                      \E n \in 1..Len(TaskLines(files[page].text)) :
                          TaskLines(files[page].text)[n] = UnfinishedLines(r.before)[k]

\* C29: when two rollover invocations for one page type interleave at their
\* await points, the final vault state is that of some sequential run: one page
\* at the canonical path, the old page archived exactly once, no file left at
\* the temp path, and no unfinished task of the old page missing from the
\* current page.
C29_AsSomeSequentialRun == [][C29_ArchivedOnce]_vars /\ []C29_FinalVault

----------------------------------------------------------------------------
(* detectPageType and the file rollover takes, checked under SpecMenu *)

\* C30: detectPageType(path) returns a page type t only when path is the
\* configured page file of that type, path = getFilePath(t); so the rollover
\* menu item and the command are offered only for the file that rollover(t)
\* reads and archives.
C30_OnlyThePageFile ==
    /\ returned # <<>> => filePath = getFilePath(returned[1])
    /\ pc \in {"item", "command"} => filePath = getFilePath(detectPageType(filePath)[1])
    /\ pc = "rollover" => call[1].path = filePath

====
